---- MODULE Spec2Model ----
(***************************************************************************)
(* Interview-Labs: the questions handlers and the video-analysis scorers   *)
(* as state machines.  Strings are sequences of one-character strings, so  *)
(* that trim, toLowerCase and includes are computed character by           *)
(* character.  Numbers that can carry a fraction are fixed-point, in       *)
(* hundredths (2.5 is 250); a JavaScript number is a record that is        *)
(* either NaN or carries such a value.                                     *)
(***************************************************************************)
EXTENDS Integers, Sequences, FiniteSets, TLC

VARIABLES
    env,      \* process.env.COHERE_API_KEY: "unset", "blank" or "set"
    qpc,      \* questions handler: "idle", "cohere" (awaiting the call), "templates", "done"
    qreq,     \* the request being handled: [h, field, count]
    qresp,    \* the response sent: [status, questions, ai, requested, ...]
    fpc,      \* file-identity scorers: "idle" or "chosen" (a field and a file are chosen)
    fcall,    \* the scorer, the field and the file chosen: [scorer, field, name, size]
    fres,     \* the results of the invocations made for fcall, in order
    tpc,      \* transcript and text handlers: "idle", "cohere", "fallback", "done"
    treq,     \* the request being analysed: [h, field, shape, segments, hasVideo]
    tres,     \* the analysis returned: [via, analysis]
    ppc,      \* transcribing handlers: "idle", "polling", "transcribed", "failed", "responded"
    preq,     \* the handler transcribing and whether ASSEMBLYAI_API_KEY is set: [h, key]
    attempts, \* part_003: the polls made so far
    transcript, \* the status of the last poll's transcript
    presp,    \* the status of the response sent, 0 before it is sent
    now,      \* Express server: Date.now(), in milliseconds
    disk,     \* the files of UPLOAD_DIR: [path, content], content the request that wrote it
    upl,      \* the video-analysis requests in flight: [pc, name, path, read]
    users,    \* Express server: the Map users, its values in insertion order
    areq,     \* the last request of the auth and sessions endpoints
    aresp,    \* the response to it
    hreq,     \* api/analyze.js: the last request of the handler
    hresp     \* the response to it

qvars == <<qpc, qreq, qresp>>
fvars == <<fpc, fcall, fres>>
tvars == <<tpc, treq, tres>>
pvars == <<ppc, preq, attempts, transcript, presp>>
uvars == <<now, disk, upl>>
avars == <<users, areq, aresp>>
hvars == <<hreq, hresp>>
vars == <<env, qpc, qreq, qresp, fpc, fcall, fres, tpc, treq, tres,
          ppc, preq, attempts, transcript, presp, now, disk, upl,
          users, areq, aresp, hreq, hresp>>

(***************************************************************************)
(* JavaScript strings and numbers                                          *)
(***************************************************************************)
UpperChars == <<"A","B","C","D","E","F","G","H","I","J","K","L","M","N","O","P","Q","R","S","T","U","V","W","X","Y","Z">>
LowerChars == <<"a","b","c","d","e","f","g","h","i","j","k","l","m","n","o","p","q","r","s","t","u","v","w","x","y","z">>
WhiteSpace == {" ", "\t", "\n"}

\* String.prototype.toLowerCase, one character
LowerOf == [k \in 1..Len(UpperChars) |-> LowerChars[k]]
UpperIndex == [c \in {UpperChars[k] : k \in 1..Len(UpperChars)} |->
                  CHOOSE k \in 1..Len(UpperChars) : UpperChars[k] = c]

LowerChar(c) == IF c \in DOMAIN UpperIndex THEN LowerOf[UpperIndex[c]] ELSE c

toLowerCase(s) == [i \in 1..Len(s) |-> LowerChar(s[i])]

\* variant: the string as it is, white space kept
trim_kept(s) == s

\* String.prototype.trim: drops leading and trailing white space
trim(s) ==
    LET keep == {i \in 1..Len(s) : s[i] \notin WhiteSpace}
    IN  IF keep = {} THEN <<>>
        ELSE LET first == CHOOSE i \in keep : \A j \in keep : i <= j
                 last  == CHOOSE i \in keep : \A j \in keep : j <= i
             IN  SubSeq(s, first, last)

\* String.prototype.includes
includes(s, t) ==
    \E i \in 1..(Len(s) - Len(t) + 1) : \A j \in 1..Len(t) : s[i + j - 1] = t[j]

NaN == [nan |-> TRUE, v |-> 0]
Num(x) == [nan |-> FALSE, v |-> x]

\* Number(value) for the JSON values a request body can carry
Number(val) ==
    CASE val.t = "number"    -> Num(val.v)
      [] val.t = "null"      -> Num(0)
      [] val.t = "undefined" -> NaN
      [] OTHER               -> NaN      \* a non-numeric string

\* Math.min(a, x) and Math.max(a, x) with a an integer constant (in hundredths)
MathMin(a, x) == IF x.nan THEN NaN ELSE Num(IF x.v < a THEN x.v ELSE a)
MathMax(a, x) == IF x.nan THEN NaN ELSE Num(IF x.v > a THEN x.v ELSE a)

\* x || d on numbers: NaN and 0 are falsy
OrDefault(x, d) == IF x.nan \/ x.v = 0 THEN Num(d) ELSE x

\* Math.round on hundredths: floor(x + 0.5)
MathRound(x) == ((x + 50) \div 100) * 100

\* ToIntegerOrInfinity, as Array.prototype.slice applies it to its arguments
ToInteger(x) ==
    IF x.nan THEN 0
    ELSE IF x.v >= 0 THEN x.v \div 100 ELSE -((-x.v) \div 100)

\* Array.prototype.slice(0, end)
slice0(a, end) ==
    LET e == ToInteger(end)
        k == IF e < 0 THEN (IF Len(a) + e < 0 THEN 0 ELSE Len(a) + e)
             ELSE (IF e > Len(a) THEN Len(a) ELSE e)
    IN  SubSeq(a, 1, k)

(***************************************************************************)
(* Questions handlers: server.js, api/questions.js, part_000, part_001     *)
(***************************************************************************)
fieldMappings_server ==
    << [category |-> "intern", keywords |-> <<
            <<"i","n","t","e","r","n">>,
            <<"i","n","t","e","r","n","s","h","i","p">>,
            <<"t","r","a","i","n","e","e">>,
            <<"e","n","t","r","y"," ","l","e","v","e","l">>,
            <<"e","n","t","r","y","-","l","e","v","e","l">>,
            <<"s","t","u","d","e","n","t">>,
            <<"g","r","a","d","u","a","t","e">>
        >>],
       [category |-> "java", keywords |-> <<
            <<"j","a","v","a">>,
            <<"j","v","m">>,
            <<"s","p","r","i","n","g">>,
            <<"h","i","b","e","r","n","a","t","e">>
        >>],
       [category |-> "software", keywords |-> <<
            <<"s","o","f","t","w","a","r","e">>,
            <<"d","e","v","e","l","o","p","e","r">>,
            <<"p","r","o","g","r","a","m","m","e","r">>,
            <<"e","n","g","i","n","e","e","r">>,
            <<"c","o","d","i","n","g">>,
            <<"p","r","o","g","r","a","m","m","i","n","g">>,
            <<"b","a","c","k","e","n","d">>,
            <<"f","r","o","n","t","e","n","d">>,
            <<"f","u","l","l","s","t","a","c","k">>,
            <<"w","e","b"," ","d","e","v","e","l","o","p","m","e","n","t">>
        >>],
       [category |-> "data", keywords |-> <<
            <<"d","a","t","a">>,
            <<"a","n","a","l","y","s","t">>,
            <<"s","c","i","e","n","t","i","s","t">>,
            <<"a","n","a","l","y","t","i","c","s">>,
            <<"m","a","c","h","i","n","e"," ","l","e","a","r","n","i","n","g">>,
            <<"m","l">>,
            <<"a","i">>,
            <<"s","t","a","t","i","s","t","i","c","s">>,
            <<"s","q","l">>
        >>],
       [category |-> "marketing", keywords |-> <<
            <<"m","a","r","k","e","t","i","n","g">>,
            <<"d","i","g","i","t","a","l"," ","m","a","r","k","e","t","i","n","g">>,
            <<"s","e","o">>,
            <<"s","e","m">>,
            <<"s","o","c","i","a","l"," ","m","e","d","i","a">>,
            <<"c","a","m","p","a","i","g","n">>,
            <<"b","r","a","n","d">>
        >>],
       [category |-> "product", keywords |-> <<
            <<"p","r","o","d","u","c","t">>,
            <<"p","m">>,
            <<"p","r","o","d","u","c","t"," ","m","a","n","a","g","e","r">>,
            <<"p","r","o","d","u","c","t"," ","o","w","n","e","r">>
        >>],
       [category |-> "design", keywords |-> <<
            <<"d","e","s","i","g","n">>,
            <<"u","i">>,
            <<"u","x">>,
            <<"d","e","s","i","g","n","e","r">>,
            <<"u","s","e","r"," ","e","x","p","e","r","i","e","n","c","e">>,
            <<"u","s","e","r"," ","i","n","t","e","r","f","a","c","e">>,
            <<"g","r","a","p","h","i","c">>
        >>] >>

fieldMappings_api ==
    << [category |-> "intern", keywords |-> <<
            <<"i","n","t","e","r","n">>,
            <<"i","n","t","e","r","n","s","h","i","p">>,
            <<"t","r","a","i","n","e","e">>,
            <<"e","n","t","r","y"," ","l","e","v","e","l">>,
            <<"e","n","t","r","y","-","l","e","v","e","l">>,
            <<"s","t","u","d","e","n","t">>,
            <<"g","r","a","d","u","a","t","e">>
        >>],
       [category |-> "java", keywords |-> <<
            <<"j","a","v","a">>,
            <<"j","v","m">>,
            <<"s","p","r","i","n","g">>,
            <<"h","i","b","e","r","n","a","t","e">>,
            <<"m","a","v","e","n">>,
            <<"g","r","a","d","l","e">>
        >>],
       [category |-> "software", keywords |-> <<
            <<"s","o","f","t","w","a","r","e">>,
            <<"d","e","v","e","l","o","p","e","r">>,
            <<"p","r","o","g","r","a","m","m","e","r">>,
            <<"e","n","g","i","n","e","e","r">>,
            <<"c","o","d","i","n","g">>,
            <<"p","r","o","g","r","a","m","m","i","n","g">>,
            <<"b","a","c","k","e","n","d">>,
            <<"f","r","o","n","t","e","n","d">>,
            <<"f","u","l","l","s","t","a","c","k">>,
            <<"w","e","b"," ","d","e","v","e","l","o","p","m","e","n","t">>
        >>] >>

fieldMappings_p000 ==
    << [category |-> "intern", keywords |-> <<
            <<"i","n","t","e","r","n">>,
            <<"i","n","t","e","r","n","s","h","i","p">>,
            <<"t","r","a","i","n","e","e">>,
            <<"e","n","t","r","y"," ","l","e","v","e","l">>,
            <<"s","t","u","d","e","n","t">>,
            <<"g","r","a","d","u","a","t","e">>
        >>],
       [category |-> "java", keywords |-> <<
            <<"j","a","v","a">>,
            <<"j","v","m">>,
            <<"s","p","r","i","n","g">>,
            <<"h","i","b","e","r","n","a","t","e">>
        >>],
       [category |-> "software", keywords |-> <<
            <<"s","o","f","t","w","a","r","e">>,
            <<"d","e","v","e","l","o","p","e","r">>,
            <<"p","r","o","g","r","a","m","m","e","r">>,
            <<"e","n","g","i","n","e","e","r">>,
            <<"c","o","d","i","n","g">>,
            <<"p","r","o","g","r","a","m","m","i","n","g">>,
            <<"b","a","c","k","e","n","d">>,
            <<"f","r","o","n","t","e","n","d">>,
            <<"f","u","l","l","s","t","a","c","k">>
        >>] >>

\* part_001 tests the keywords in an if / else if chain, written here as the entries
\* the chain tests in turn
fieldMappings_p001 ==
    << [category |-> "intern", keywords |-> <<
            <<"i","n","t","e","r","n">>,
            <<"e","n","t","r","y">>,
            <<"s","t","u","d","e","n","t">>
        >>],
       [category |-> "java", keywords |-> <<
            <<"j","a","v","a">>,
            <<"s","p","r","i","n","g">>,
            <<"j","v","m">>
        >>],
       [category |-> "software", keywords |-> <<
            <<"s","o","f","t","w","a","r","e">>,
            <<"d","e","v","e","l","o","p","e","r">>,
            <<"e","n","g","i","n","e","e","r">>,
            <<"p","r","o","g","r","a","m","m","i","n","g">>
        >>] >>

(***************************************************************************)
(* The template pools.  A template is kept as its place in its pool and    *)
(* the character it ends with; the templates of one pool are pairwise      *)
(* different strings, so the place identifies the string.                  *)
(***************************************************************************)
fallbackTemplates_server ==
    [ software |-> <<".","?",".","?",".","?",".","?",".","?",".","?",".","?",".","?",".","?",".","?">>,
      java |-> <<".","?",".","?",".","?",".","?",".","?",".","?",".","?",".","?",".","?",".","?">>,
      intern |-> <<"?",".","?",".","?",".","?",".","?",".","?","?",".",".","?","?",".","?",".","?">>,
      data |-> <<"?",".","?","?","?",".","?",".","?",".","?",".","?",".","?",".","?",".","?",".">>,
      marketing |-> <<".","?",".","?",".","?",".","?",".","?",".","?",".","?",".","?",".","?",".","?">>,
      product |-> <<"?",".","?",".","?",".","?",".","?",".","?",".","?",".","?",".","?",".","?",".">>,
      design |-> <<".","?",".","?",".","?",".","?",".","?",".","?",".","?",".","?",".","?",".","?">> ]

genericTemplates_server ==
    <<".","?",".","?",".",".","?","?","?",".","?",".","?",".","?",".","?",".","?",".">>

questionTemplates_api ==
    [ software |-> <<".","?",".","?",".","?",".","?",".","?">>,
      java |-> <<".","?",".","?",".","?",".","?",".","?">>,
      intern |-> <<"?",".","?",".","?",".","?",".","?",".">> ]

genericTemplates_api ==
    <<".","?",".","?",".",".","?","?","?",".">>

fallbackTemplates_p000 ==
    [ software |-> <<".","?",".","?",".","?",".","?",".","?">>,
      java |-> <<".","?",".","?",".","?",".","?",".","?">>,
      intern |-> <<"?",".","?",".","?",".","?",".","?",".">> ]

genericTemplates_p000 ==
    <<".","?",".","?",".",".","?","?","?",".">>

questionTemplates_p001 ==
    [ software |-> <<".","?","?",".",".","?",".","?",".",".">>,
      java |-> <<".","?",".","?",".",".","?",".","?",".">>,
      intern |-> <<"?",".","?",".","?",".","?",".","?",".">> ]

genericTemplates_p001 ==
    <<".","?",".","?",".",".","?","?","?",".">>

Handlers == {"server", "api", "p000", "p001"}

fieldMappings(h) ==
    CASE h = "server" -> fieldMappings_server
      [] h = "api"    -> fieldMappings_api
      [] h = "p001"   -> fieldMappings_p001
      [] OTHER        -> fieldMappings_p000

categoryTemplates(h) ==
    CASE h = "server" -> fallbackTemplates_server
      [] h = "api"    -> questionTemplates_api
      [] h = "p001"   -> questionTemplates_p001
      [] OTHER        -> fallbackTemplates_p000

genericTemplates(h) ==
    CASE h = "server" -> genericTemplates_server
      [] h = "api"    -> genericTemplates_api
      [] h = "p001"   -> genericTemplates_p001
      [] OTHER        -> genericTemplates_p000

\* variant: a keyword counts only when it is the whole field
someKeyword_exact(keywords, fieldLower) ==
    \E k \in 1..Len(keywords) : fieldLower = keywords[k]

\* keywords.some(keyword => fieldLower.includes(keyword))
someKeyword(keywords, fieldLower) ==
    \E k \in 1..Len(keywords) : includes(fieldLower, keywords[k])

\* variant: the loop without its break, so that the last matching entry wins
RECURSIVE matchLoop_noBreak(_, _, _)
matchLoop_noBreak(mappings, fieldLower, i) ==
    LET hits == {k \in i..Len(mappings) : \E j \in 1..Len(mappings[k].keywords) :
                    includes(fieldLower, mappings[k].keywords[j])}
    IN  IF hits = {} THEN "none"
        ELSE mappings[CHOOSE k \in hits : \A m \in hits : m <= k].category

\* for (const [category, keywords] of Object.entries(fieldMappings)) { if (...) { ...; break; } }
\* "none" when the loop ends without a match
RECURSIVE matchLoop(_, _, _)
matchLoop(mappings, fieldLower, i) ==
    IF i > Len(mappings) THEN "none"
    ELSE IF someKeyword(mappings[i].keywords, fieldLower) THEN mappings[i].category
    ELSE matchLoop(mappings, fieldLower, i + 1)

\* the category matched for a trimmed field: fieldLower = field.toLowerCase(), then the loop
matchedCategory(h, field) == matchLoop(fieldMappings(h), toLowerCase(field), 1)

\* selectedTemplates, with the pool it was taken from: the matched category's pool, and
\* the generic pool if (selectedTemplates.length === 0)
selectedTemplates(h, field) ==
    LET cat  == matchedCategory(h, field)
        ends == IF cat = "none" THEN <<>> ELSE categoryTemplates(h)[cat]
    IN  IF Len(ends) = 0
        THEN [pool |-> "generic",
              items |-> [i \in 1..Len(genericTemplates(h)) |->
                            [pool |-> "generic", idx |-> i, last |-> genericTemplates(h)[i]]]]
        ELSE [pool |-> cat,
              items |-> [i \in 1..Len(ends) |-> [pool |-> cat, idx |-> i, last |-> ends[i]]]]

\* [...a].sort(() => 0.5 - Math.random()): a permutation of a that the random comparator
\* decides.  The permutations drawn here are the rotations of a and of a reversed:
\* i -> a*i + b (mod n) with a in {1, n-1} and b in ShuffleOffsets.
ShuffleOffsets == {0, 1, 4}

Shuffles(n) ==
    IF n = 0 THEN {<<>>}
    ELSE {[i \in 1..n |-> (((i - 1) * a + b) % n) + 1] : a \in {1, n - 1}, b \in ShuffleOffsets}

\* the request body's field and count, as each handler reads them:
\*   server, part_000: (body.field || '').trim(); clamp(Number(body.count) || 7)
\*   api/questions.js, part_001: { field = '', count = 5 }; field.trim(); clamp(Number(count))
\* throws: a TypeError (.trim of a value that is no string), caught by the outer catch
readBody(h, body) ==
    LET f == body.field
        c == body.count
        falsy == f.t \in {"undefined", "null"} \/ (f.t = "string" /\ f.s = <<>>)
    IN  IF h \in {"api", "p001"}
        THEN [throws |-> f.t \in {"null", "number"},
              field  |-> IF f.t = "string" THEN trim(f.s) ELSE <<>>,
              count  |-> MathMax(100, MathMin(2000,
                            IF c.t = "undefined" THEN Num(500) ELSE Number(c)))]
        ELSE [throws |-> ~falsy /\ f.t # "string",
              field  |-> IF f.t = "string" THEN trim(f.s) ELSE <<>>,
              count  |-> MathMax(100, MathMin(2000, OrDefault(Number(c), 700)))]

\* whether the handler calls Cohere:
\*   server.js: COHERE_API_KEY && COHERE_API_KEY.trim().length > 0
\*   api/questions.js, part_001: if (cohereApiKey);  part_000 never does
callsCohere(h, key) ==
    CASE h = "server" -> key = "set"
      [] h \in {"api", "p001"} -> key \in {"set", "blank"}
      [] OTHER        -> FALSE

NoRequest == [h |-> "none", body |-> [field |-> [t |-> "undefined"], count |-> [t |-> "undefined"]],
              field |-> <<>>, count |-> NaN]

NoResponse == [status |-> 0, questions |-> <<>>, ai |-> FALSE, requested |-> NaN,
               generated |-> 0, selected |-> "none"]

ErrorResponse(code) == [NoResponse EXCEPT !.status = code]

\* the template path: shuffle the selected pool with permutation p, cut it to count
templateResponse(h, field, count, p) ==
    LET sel       == selectedTemplates(h, field)
        shuffled  == [i \in 1..Len(sel.items) |-> sel.items[p[i]]]
        questions == slice0(shuffled, count)
    IN  [status |-> 200, questions |-> questions, ai |-> FALSE, requested |-> count,
         generated |-> Len(questions), selected |-> sel.pool]

\* x >= Math.min(3, count), x an array length: false when count is NaN
atLeastMin3(x, count) ==
    ~count.nan /\ x * 100 >= (IF count.v < 300 THEN count.v ELSE 300)

\* server.js: the questions extracted from Cohere's text.  A line counts when it is
\* numbered and what follows the number is longer than 10 characters; '?' is appended
\* when missing; a question already in the list is skipped.
RECURSIVE extractServer(_, _)
extractServer(lines, acc) ==
    IF lines = <<>> THEN acc
    ELSE LET l == Head(lines)
             q == [pool |-> "cohere", idx |-> l.txt, last |-> "?"]
         IN  IF l.num /\ l.long /\ ~(\E k \in 1..Len(acc) : acc[k] = q)
             THEN extractServer(Tail(lines), Append(acc, q))
             ELSE extractServer(Tail(lines), acc)

\* api/questions.js: .filter(q => q.length > 10 && !q.match(/^[0-9]/))
RECURSIVE extractApi(_)
extractApi(lines) ==
    IF lines = <<>> THEN <<>>
    ELSE LET l    == Head(lines)
             rest == extractApi(Tail(lines))
         IN  IF l.long /\ ~l.num
             THEN <<[pool |-> "cohere", idx |-> l.txt,
                     last |-> IF l.q THEN "?" ELSE "."]>> \o rest
             ELSE rest

\* part_001: x >= Math.min(questionCount, 2), x an array length: false when the count is NaN
atLeastMin2(x, count) ==
    ~count.nan /\ x * 100 >= (IF count.v < 200 THEN count.v ELSE 200)

\* part_001: .filter(line => line.length > 15 && (line.includes('?') || line.includes('how')
\* || line.includes('what') || line.includes('describe'))), then the numbering is taken off
RECURSIVE extract_p001(_)
extract_p001(lines) ==
    IF lines = <<>> THEN <<>>
    ELSE LET l    == Head(lines)
             rest == extract_p001(Tail(lines))
         IN  IF l.longer /\ (l.q \/ l.cue)
             THEN <<[pool |-> "cohere", idx |-> l.txt,
                     last |-> IF l.q THEN "?" ELSE "."]>> \o rest
             ELSE rest

\* what the handler does with Cohere's reply: the response it sends, or "fallback"
\* (status 0) when it goes on to the templates
cohereResponse(h, count, reply) ==
    IF reply.kind # "text" THEN NoResponse
    ELSE IF h = "server"
    THEN LET questions == extractServer(reply.lines, <<>>)
             final     == slice0(questions, count)
         IN  IF atLeastMin3(Len(questions), count)
             THEN [status |-> 200, questions |-> final, ai |-> TRUE, requested |-> count,
                   generated |-> Len(final), selected |-> "none"]
             ELSE NoResponse
    ELSE IF h = "p001"
    THEN LET questions == slice0(extract_p001(reply.lines), count)
         IN  IF atLeastMin2(Len(questions), count)
             THEN [status |-> 200, questions |-> slice0(questions, count), ai |-> TRUE,
                   requested |-> count, generated |-> Len(questions), selected |-> "none"]
             ELSE NoResponse
    ELSE LET questions == slice0(extractApi(reply.lines), count)
         IN  IF atLeastMin3(Len(questions), count)
             THEN [status |-> 200, questions |-> slice0(questions, count), ai |-> TRUE,
                   requested |-> count, generated |-> Len(questions), selected |-> "none"]
             ELSE NoResponse

(***************************************************************************)
(* Requests to the questions handlers                                      *)
(***************************************************************************)
Words ==
    { <<"j","a","v","a">>, <<"i","n","t","e","r","n">>,
      <<"e","n","g","i","n","e","e","r">>, <<"d","a","t","a">>,
      <<"n","u","r","s","e">> }

\* one word, or two words joined by a space
Phrases == Words \cup {v \o <<" ">> \o w : v, w \in Words}

toUpperCase(s) ==
    [i \in 1..Len(s) |->
        IF \E k \in 1..Len(LowerChars) : LowerChars[k] = s[i]
        THEN UpperChars[CHOOSE k \in 1..Len(LowerChars) : LowerChars[k] = s[i]]
        ELSE s[i]]

\* a phrase as typed: in lower case, or in upper case with white space around it
FieldStrings ==
    Phrases \cup {<<" ">> \o toUpperCase(p) \o <<"\t", " ">> : p \in Phrases}
            \cup {<<>>, <<" ", " ">>}

FieldValues ==
    {[t |-> "string", s |-> s] : s \in FieldStrings}
        \cup {[t |-> "undefined"], [t |-> "null"], [t |-> "number"]}

\* count values, in hundredths: -3, 0, 0.4, 1, 2.5, 3, 10, 25
CountNumbers == {-300, 0, 40, 100, 250, 300, 1000, 2500}

CountValues ==
    {[t |-> "number", v |-> v] : v \in CountNumbers}
        \cup {[t |-> "undefined"], [t |-> "null"], [t |-> "string"]}

Bodies == [field : FieldValues, count : CountValues]

\* lines of Cohere's text: numbered or not, longer than 10 characters or not, longer
\* than 15 characters or not, ending in '?' or not, holding one of the words 'how',
\* 'what' and 'describe' or a '?' before the end (cue) or not; txt names the wording
\* (without a final '?')
CohereLines ==
    { [num |-> TRUE,  long |-> TRUE,  longer |-> TRUE,  q |-> TRUE,  cue |-> FALSE, txt |-> 1],
      [num |-> TRUE,  long |-> TRUE,  longer |-> TRUE,  q |-> FALSE, cue |-> FALSE, txt |-> 1],
      [num |-> FALSE, long |-> TRUE,  longer |-> FALSE, q |-> TRUE,  cue |-> FALSE, txt |-> 2],
      [num |-> FALSE, long |-> TRUE,  longer |-> TRUE,  q |-> FALSE, cue |-> TRUE,  txt |-> 3],
      [num |-> TRUE,  long |-> FALSE, longer |-> FALSE, q |-> TRUE,  cue |-> TRUE,  txt |-> 4] }

MaxLines == 3

RECURSIVE SeqsUpTo(_, _)
SeqsUpTo(S, n) ==
    IF n = 0 THEN {<<>>}
    ELSE LET shorter == SeqsUpTo(S, n - 1)
         IN  shorter \cup {Append(s, x) : s \in {t \in shorter : Len(t) = n - 1}, x \in S}

\* how the call to Cohere ends: it throws, the reply is not OK, the reply has no text,
\* or it has text
CohereReplies ==
    {[kind |-> k, lines |-> <<>>] : k \in {"throws", "notok", "notext"}}
        \cup {[kind |-> "text", lines |-> ls] : ls \in SeqsUpTo(CohereLines, MaxLines) \ {<<>>}}


(***************************************************************************)
(* File-identity scorers: part_004 and api/analyze.js                      *)
(* generateVideoBasedAnalysis, part_005 generateRealisticVideoAnalysis     *)
(***************************************************************************)
\* the printable ASCII characters, in code order from 32 (the backslash and the
\* backtick, which no input holds, by name)
AsciiChars ==
    <<" ","!","\"","#","$","%","&","'","(",")","*","+",",","-",".","/","0","1","2","3","4","5","6","7","8","9",":",";","<","=",">","?","@","A","B","C","D","E","F","G","H","I","J","K","L","M","N","O","P","Q","R","S","T","U","V","W","X","Y","Z","[","backslash","]","^","_","backtick","a","b","c","d","e","f","g","h","i","j","k","l","m","n","o","p","q","r","s","t","u","v","w","x","y","z","{","|","}","~">>

\* String.prototype.charCodeAt for one character
charCode(c) == 31 + CHOOSE i \in 1..Len(AsciiChars) : AsciiChars[i] = c

\* Number.prototype.toString of a non-negative integer
RECURSIVE toString(_)
toString(n) ==
    IF n < 10 THEN <<AsciiChars[17 + n]>>
    ELSE Append(toString(n \div 10), AsciiChars[17 + (n % 10)])

\* A 32-bit integer as two 16-bit halves [hi, lo] of its two's complement pattern.
\* hash = ((hash << 5) - hash) + char; hash = hash & hash;  that is hash*31 + char
\* wrapped to 32 bits
hashStep(h, code) ==
    LET lo == h.lo * 31 + code
        hi == h.hi * 31 + (lo \div 65536)
    IN  [hi |-> hi % 65536, lo |-> lo % 65536]

\* for (let i = 0; i < str.length; i++): the loop from character i on.  No half is
\* ever negative; the test has the running hash evaluated at every step
RECURSIVE hashLoop(_, _, _)
hashLoop(str, i, h) ==
    IF i > Len(str) \/ h.lo < 0 THEN h
    ELSE hashLoop(str, i + 1, hashStep(h, charCode(str[i])))

\* variant: the wrapped value returned as it is, without Math.abs
mathAbs32_signed(h) == h

\* Math.abs(hash) of the signed 32-bit value, again as halves of a magnitude that may be
\* 2^31: a negative pattern u stands for u - 2^32, whose absolute value is 2^32 - u
mathAbs32(h) ==
    IF h.hi < 32768 THEN h
    ELSE IF h.lo = 0 THEN [hi |-> 65536 - h.hi, lo |-> 0]
    ELSE [hi |-> 65535 - h.hi, lo |-> 65536 - h.lo]

\* let hash = 0; for (...) {...}; Math.abs(hash)
rollingHash(str) == mathAbs32(hashLoop(str, 1, [hi |-> 0, lo |-> 0]))

\* hash % k for a small k
hashMod(h, k) == ((h.hi % k) * (65536 % k) + (h.lo % k)) % k

\* the string literals the scorers look for in the lower-cased field
lit ==
    [ java |-> <<"j","a","v","a">>,
      senior |-> <<"s","e","n","i","o","r">>,
      lead |-> <<"l","e","a","d">>,
      intern |-> <<"i","n","t","e","r","n">>,
      entry |-> <<"e","n","t","r","y">>,
      frontend |-> <<"f","r","o","n","t","e","n","d">>,
      software |-> <<"s","o","f","t","w","a","r","e">>,
      engineer |-> <<"e","n","g","i","n","e","e","r">>,
      developer |-> <<"d","e","v","e","l","o","p","e","r">>,
      spring |-> <<"s","p","r","i","n","g">>,
      student |-> <<"s","t","u","d","e","n","t">>,
      data |-> <<"d","a","t","a">>,
      video |-> <<"v","i","d","e","o",".","m","p","4">>,
      general |-> <<"g","e","n","e","r","a","l">>,
      undefined |-> <<"u","n","d","e","f","i","n","e","d">> ]

\* a text of a result: which template, and the field and number interpolated in it
Text(id, field, num) == [id |-> id, field |-> field, num |-> num]

Stamp(m, s) == [m |-> m, s |-> s]

MB == 1048576

\* (x).toFixed(1) and Math.round(x * 10) / 10 of the quotient a / b, in tenths
tenthsOf(a, b) == (a * 20 + b) \div (2 * b)

(***************************************************************************)
(* Analysis objects.  A JSON value is tagged with its type; a rating is in *)
(* hundredths.                                                             *)
(***************************************************************************)
JNum(v) == [t |-> "number", v |-> v, items |-> <<>>]
JArr(items) == [t |-> "array", v |-> 0, items |-> items]
JUndefined == [t |-> "undefined", v |-> 0, items |-> <<>>]
JStr == [t |-> "string", v |-> 0, items |-> <<>>]

\* ToBoolean: a number other than 0, any array
truthy(x) == (x.t = "number" /\ x.v # 0) \/ x.t = "array"

\* how the call for a JSON analysis ends: it throws, the text has no braces, the text
\* between the braces is no JSON, or it parses to an object
ReplyRatings == {JUndefined, JNum(0), JNum(750), JNum(1100)}
ReplyMistakes == {JUndefined, JArr(<<[timestamp |-> [m |-> 0, s |-> 30],
                                      text |-> [id |-> "cohere.mistake", field |-> <<>>, num |-> 0]]>>)}
ReplyTips == {JUndefined, JArr(<<[id |-> "cohere.tip", field |-> <<>>, num |-> 0]>>)}

NoObject == [rating |-> JUndefined, mistakes |-> JUndefined, tips |-> JUndefined,
             summary |-> JUndefined]

NoReply == [kind |-> "none", object |-> NoObject]

AnalysisReplies ==
    {[kind |-> k, object |-> NoObject] : k \in {"throws", "nobraces", "nojson"}}
        \cup {[kind |-> "object", object |-> o] :
                 o \in [rating : ReplyRatings, mistakes : ReplyMistakes, tips : ReplyTips,
                        summary : {JStr}]}
        \cup {[kind |-> "object", object |-> o] :
                 o \in [rating : {JNum(750)}, mistakes : ReplyMistakes \ {JUndefined},
                        tips : ReplyTips \ {JUndefined}, summary : {JUndefined}]}

\* an analysis as the handlers return it
Analysis(rating, mistakes, tips, summary) ==
    [rating |-> rating, mistakes |-> mistakes, tips |-> tips, summary |-> summary]

NoSummary == [field |-> <<>>, file |-> <<>>, size |-> 0, rating |-> 0, band |-> "none"]

\* the parsed object, returned as it is; its summary is Cohere's wording, if it has one
parsedAnalysis(o) ==
    Analysis(o.rating, o.mistakes, o.tips,
             [NoSummary EXCEPT !.band = IF o.summary.t = "string" THEN "cohere" ELSE "none"])


Max(a, b) == IF a > b THEN a ELSE b
Min(a, b) == IF a < b THEN a ELSE b

\* part_004: mistakePool, by place; entry 4 interpolates the field
mistakePool_p004(field) ==
    << [timestamp |-> Stamp(0, 30), text |-> Text("p004.mistake.1", <<>>, 0)],
       [timestamp |-> Stamp(1, 15), text |-> Text("p004.mistake.2", <<>>, 0)],
       [timestamp |-> Stamp(1, 45), text |-> Text("p004.mistake.3", <<>>, 0)],
       [timestamp |-> Stamp(2, 10), text |-> Text("p004.mistake.4", field, 0)],
       [timestamp |-> Stamp(0, 45), text |-> Text("p004.mistake.5", <<>>, 0)],
       [timestamp |-> Stamp(1, 30), text |-> Text("p004.mistake.6", <<>>, 0)] >>

\* part_004: videoFile.originalFilename || 'video.mp4'
fileName_p004(videoFile) ==
    IF videoFile.originalFilename = <<>> THEN lit.video ELSE videoFile.originalFilename

\* part_004: a variant whose hash also reads the path the upload was stored under
hashInput_p004_withPath(field, videoFile) ==
    fileName_p004(videoFile) \o toString(videoFile.size) \o field \o videoFile.filepath

\* part_004: const hashInput = fileName + fileSize.toString() + field
hashInput_p004(field, videoFile) ==
    fileName_p004(videoFile) \o toString(videoFile.size) \o field

\* part_004 generateVideoBasedAnalysis(field, videoFile); ratings in hundredths
generateVideoBasedAnalysis_p004(field, videoFile) ==
    LET fileSize   == videoFile.size
        fileName   == fileName_p004(videoFile)
        fileHash   == rollingHash(hashInput_p004(field, videoFile))
        lower      == toLowerCase(field)
        base       == IF includes(lower, lit.java) THEN 700
                      ELSE IF includes(lower, lit.senior) \/ includes(lower, lit.lead) THEN 750
                      ELSE IF includes(lower, lit.intern) \/ includes(lower, lit.entry) THEN 550
                      ELSE 600
        baseRating == base + (IF fileSize > 10 * MB THEN 50 ELSE 0)
                           + (IF fileSize > 20 * MB THEN 50 ELSE 0)
                           - (IF fileSize < 2 * MB THEN 50 ELSE 0)
        hashVariation == (hashMod(fileHash, 8) - 4) * 25
        finalRating   == Max(500, Min(900, baseRating + hashVariation))
        roundedRating == ((finalRating * 4 + 50) \div 100) * 25
        numMistakes   == IF roundedRating >= 800 THEN 1
                         ELSE IF roundedRating >= 700 THEN 2 ELSE 3
        pool          == mistakePool_p004(field)
        selectedMistakes ==
            [i \in 1..numMistakes |->
                pool[((hashMod(fileHash, Len(pool)) + (i - 1) * 7) % Len(pool)) + 1]]
        fieldKey == IF includes(lower, lit.java) THEN "java"
                    ELSE IF includes(lower, lit.intern) THEN "intern"
                    ELSE IF includes(lower, lit.frontend) THEN "frontend" ELSE "software"
        combinedTips ==
            << Text("p004.tip.size", <<>>, tenthsOf(fileSize, MB)),
               Text("p004.tip.base.2", <<>>, 0), Text("p004.tip.base.3", <<>>, 0),
               Text("p004.tip.base.4", <<>>, 0),
               Text("p004.tip.field.1", lit[fieldKey], 0),
               Text("p004.tip.field.2", lit[fieldKey], 0) >>
    IN  Analysis(JNum(roundedRating),
                 JArr(selectedMistakes),
                 JArr(SubSeq(combinedTips, 1, 5)),
                 [field |-> field, file |-> fileName, size |-> tenthsOf(fileSize, MB),
                       rating |-> roundedRating,
                       band |-> IF roundedRating >= 700 THEN "strong" ELSE "good"])

\* api/analyze.js: field.split('').reduce((acc, char) => acc + char.charCodeAt(0), 0)
RECURSIVE fieldHash(_)
fieldHash(field) ==
    IF field = <<>> THEN 0 ELSE charCode(Head(field)) + fieldHash(Tail(field))

\* api/analyze.js generateVideoBasedAnalysis(field, videoSize).  The estimated duration
\* is videoSize / 2MB clamped to [0.5, 10] minutes: it is kept as the clamped size.
generateVideoBasedAnalysis_api(field, videoSize) ==
    LET combinedHash == ((videoSize \div 1000) + fieldHash(field)) % 1000
        clamped      == Max(MB, Min(20 * MB, videoSize))
        minutes10    == tenthsOf(clamped, 2 * MB)
        fieldLower   == toLowerCase(field)
        baseRating   == IF includes(fieldLower, lit.java) THEN 800
                        ELSE IF includes(fieldLower, lit.intern) \/ includes(fieldLower, lit.entry)
                             THEN 600
                        ELSE 700
        adjusted     == baseRating + (IF clamped > 4 * MB THEN 50 ELSE 0)
                                   + (IF clamped > 10 * MB THEN 50 ELSE 0)
                                   + ((combinedHash % 3) - 1) * 100
        rating       == Max(500, Min(900, ((adjusted + 5) \div 10) * 10))
        mistakes ==
            << [timestamp |-> Stamp(0, 15 + (combinedHash % 45)),
                text |-> IF includes(fieldLower, lit.intern)
                         THEN Text("api.mistake.enthusiasm", <<>>, 0)
                         ELSE Text("api.mistake.metrics", <<>>, 0)],
               [timestamp |-> Stamp((clamped * 6) \div (20 * MB), 10 + (combinedHash % 50)),
                text |-> IF rating < 700
                         THEN Text("api.mistake.eyecontact", <<>>, 0)
                         ELSE Text("api.mistake.engagement", <<>>, 0)] >>
        tips ==
            << Text("api.tip.duration", <<>>, minutes10),
               IF includes(fieldLower, lit.java) THEN Text("api.tip.java", <<>>, 0)
               ELSE IF includes(fieldLower, lit.intern) THEN Text("api.tip.intern", <<>>, 0)
               ELSE Text("api.tip.star", <<>>, 0),
               IF rating >= 700 THEN Text("api.tip.strong", <<>>, 0)
               ELSE Text("api.tip.structure", <<>>, 0),
               Text("api.tip.simple", <<>>, 0),
               Text("api.tip.projects", field, 0) >>
    IN  Analysis(JNum(rating),
                 JArr(SubSeq(mistakes, 1, Min(Len(mistakes), IF rating < 600 THEN 3 ELSE 2))),
                 JArr(SubSeq(tips, 1, Min(Len(tips), IF rating < 700 THEN 5 ELSE 4))),
                 [field |-> field, file |-> <<>>, size |-> minutes10, rating |-> rating,
                       band |-> IF rating >= 700 THEN "strong"
                                ELSE IF rating >= 600 THEN "good" ELSE "developing"])

\* part_005 generateFileHash(filename, size)
generateFileHash(filename, size) == rollingHash(filename \o toString(size))

\* part_005 getFieldSpecificAnalysis(field, hash)
getFieldSpecificAnalysis(field, hash) ==
    LET fieldLower == toLowerCase(field)
        mistake(id, m, s, n) == [timestamp |-> Stamp(m, s), text |-> Text(id, <<>>, n)]
        tips(id, n) == [i \in 1..n |-> Text(id, <<>>, i)]
    IN  IF \/ includes(fieldLower, lit.software) \/ includes(fieldLower, lit.engineer)
           \/ includes(fieldLower, lit.developer)
        THEN [rating |-> 700 + hashMod(hash, 2) * 100,
              mistakes |-> << mistake("p005.software.mistake", 0, 15, 1),
                              mistake("p005.software.mistake", 0, 45, 2),
                              mistake("p005.software.mistake", 1, 20, 3) >>,
              tips |-> tips("p005.software.tip", 4)]
        ELSE IF includes(fieldLower, lit.java)
        THEN [rating |-> 800,
              mistakes |-> << mistake("p005.java.mistake", 0, 25, 1),
                              mistake("p005.java.mistake", 1, 10, 2) >>,
              tips |-> tips("p005.java.tip", 4)]
        ELSE IF includes(fieldLower, lit.intern) \/ includes(fieldLower, lit.entry)
        THEN [rating |-> 600 + hashMod(hash, 2) * 100,
              mistakes |-> << mistake("p005.intern.mistake", 0, 20, 1),
                              mistake("p005.intern.mistake", 0, 50, 2),
                              mistake("p005.intern.mistake", 1, 35, 3) >>,
              tips |-> tips("p005.intern.tip", 4)]
        ELSE [rating |-> 700,
              mistakes |->
                  << [timestamp |-> Stamp(0, 30), text |-> Text("p005.default.mistake", field, 1)],
                     [timestamp |-> Stamp(1, 15), text |-> Text("p005.default.mistake", <<>>, 2)] >>,
              tips |-> << Text("p005.default.tip", field, 1),
                          Text("p005.default.tip", field, 2),
                          Text("p005.default.tip", <<>>, 3) >>]

\* part_005: const ratings = [6, 7, 7, 8, 8, 8, 9]
ratings_p005 == <<600, 700, 700, 800, 800, 800, 900>>

\* part_005: Cohere is tried when cohereApiKey?.trim().length > 0
triesCohere_p005(key) == key = "set"

\* part_005: Cohere's object is returned when rating, mistakes and tips are all truthy
cohereTaken_p005(key, reply) ==
    /\ triesCohere_p005(key)
    /\ reply.kind = "object"
    /\ truthy(reply.object.rating) /\ truthy(reply.object.mistakes) /\ truthy(reply.object.tips)

\* part_005 generateRealisticVideoAnalysis(field, videoFile), given how the call to
\* Cohere ends; filename + size.toString() with a missing name reads 'undefined'
generateRealisticVideoAnalysis(field, videoFile, key, reply) ==
    LET filename == IF videoFile.originalFilename = <<>> THEN lit.undefined
                    ELSE videoFile.originalFilename
        fileHash == generateFileHash(filename, videoFile.size)
        rating   == ratings_p005[hashMod(fileHash, Len(ratings_p005)) + 1]
        fsa      == getFieldSpecificAnalysis(field, fileHash)
    IN  IF cohereTaken_p005(key, reply)
        THEN [via |-> "cohere", analysis |-> parsedAnalysis(reply.object)]
        ELSE [via |-> "fallback",
              analysis |->
                  Analysis(JNum(IF fsa.rating # 0 THEN fsa.rating ELSE rating),
                           JArr(fsa.mistakes), JArr(fsa.tips),
                           [field |-> field, file |-> <<>>, size |-> 0, rating |-> 0,
                            band |-> IF rating >= 700 THEN "strong"
                                     ELSE IF rating >= 500 THEN "good" ELSE "developing"])]

(***************************************************************************)
(* part_007 (a revision of the Express server): POST /api/analyze/video    *)
(***************************************************************************)
\* const ratings = [6, 7, 7, 8, 8, 8, 9]
ratings_p007 == <<600, 700, 700, 800, 800, 800, 900>>

commonMistakes_p007 ==
    << [timestamp |-> Stamp(0, 15), text |-> Text("p007.mistake", <<>>, 1)],
       [timestamp |-> Stamp(0, 45), text |-> Text("p007.mistake", <<>>, 2)],
       [timestamp |-> Stamp(1, 20), text |-> Text("p007.mistake", <<>>, 3)],
       [timestamp |-> Stamp(1, 50), text |-> Text("p007.mistake", <<>>, 4)] >>

\* the keys of fieldSpecificTips, in the order the loop visits them
fieldSpecificTips_p007 == <<"software", "java", "data">>

\* for (const [key, specificTips] of Object.entries(fieldSpecificTips)): the first key
\* the lower-cased field includes gives tips = [...specificTips, ...tips.slice(1)]
RECURSIVE tipsLoop_p007(_, _)
tipsLoop_p007(fieldLower, i) ==
    LET generic == [k \in 1..4 |-> Text("p007.tip.generic", <<>>, k)]
        key     == fieldSpecificTips_p007[i]
    IN  IF i > Len(fieldSpecificTips_p007) THEN generic
        ELSE IF includes(fieldLower, lit[key])
        THEN [k \in 1..4 |-> Text("p007.tip", lit[key], k)] \o Tail(generic)
        ELSE tipsLoop_p007(fieldLower, i + 1)

\* the draws of the fallback: Math.floor(Math.random() * ratings.length) and
\* Math.floor(Math.random() * 3)
Draws_p007 == {[r |-> 0, n |-> 0], [r |-> 3, n |-> 0], [r |-> 3, n |-> 2]}

NoDraw_p007 == [r |-> 0, n |-> 0]

\* the fallback analysis of the handler (if (!analysis) { ... })
fallback_p007(field, file, rnd) ==
    LET rating == ratings_p007[rnd.r + 1]
    IN  Analysis(JNum(rating),
                 JArr(SubSeq(commonMistakes_p007, 1, rnd.n + 1)),
                 JArr(SubSeq(tipsLoop_p007(toLowerCase(field), 1), 1, 4)),
                 [NoSummary EXCEPT !.field = field, !.rating = rating, !.band = "good"])

\* Cohere is tried when COHERE_API_KEY && COHERE_API_KEY.trim().length > 0, and its
\* object is the analysis when rating, mistakes and tips are all truthy
cohereTaken_p007(key, reply) ==
    /\ key = "set" /\ reply.kind = "object"
    /\ truthy(reply.object.rating) /\ truthy(reply.object.mistakes)
    /\ truthy(reply.object.tips)

\* the handler's analysis: Cohere's object, or the fallback (if (!analysis))
analyzeVideo_p007(field, file, key, reply, rnd) ==
    IF cohereTaken_p007(key, reply)
    THEN [via |-> "cohere", analysis |-> parsedAnalysis(reply.object)]
    ELSE [via |-> "fallback", analysis |-> fallback_p007(field, file, rnd)]

(***************************************************************************)
(* Uploads to the file-identity handlers.  An upload is a formidable file: *)
(* its original name, its size and the path it was stored under, which is  *)
(* new for every upload.                                                   *)
(***************************************************************************)
FileScorers == {"p004", "api", "p005", "p007"}

\* fields.field?.[0]?.trim() of the uploads
ScoreFields ==
    { <<"j","a","v","a">>,
      <<"S","e","n","i","o","r"," ","L","e","a","d">>,
      <<"i","n","t","e","r","n">>,
      <<"s","o","f","t","w","a","r","e"," ","e","n","g","i","n","e","e","r">>,
      <<"f","r","o","n","t","e","n","d">>,
      <<"n","u","r","s","e">>,
      <<"S","e","n","i","o","r"," ","J","a","v","a"," ","B","a","c","k","e","n","d"," ",
        "E","n","g","i","n","e","e","r">> }

\* <<>>: the upload carries no original name
UploadNames == { <<"a",".","m","p","4">>, <<"b",".","m","p","4">>, <<>> }

\* 1 MB, 2 MB, 5 MB, 11 MB and 25 MB
FileSizes == {1048576, 2097152, 5242880, 11534336, 26214400}

Filepaths == { <<"/","t","m","p","/","u","1">>, <<"/","t","m","p","/","u","2">> }

MaxInvocations == 2

\* the replies of Cohere the file handlers are given: every way the call fails, and
\* the objects with a list of mistakes and a rating that is missing, 0 or 7.5
ScorerReplies ==
    {r \in AnalysisReplies :
        r.kind = "object" => (r.object.mistakes.t = "array" /\ r.object.rating # JNum(1100))}

NoCall == [scorer |-> "none", field |-> <<>>, name |-> <<>>, size |-> 0]

\* one invocation of a scorer on an upload of the called file
invokeFileScorer(call, path, key, reply, rnd) ==
    LET videoFile == [originalFilename |-> call.name, size |-> call.size, filepath |-> path]
        r == CASE call.scorer = "p004" ->
                      [via |-> "fallback",
                       analysis |-> generateVideoBasedAnalysis_p004(call.field, videoFile)]
               [] call.scorer = "api" ->
                      [via |-> "fallback",
                       analysis |-> generateVideoBasedAnalysis_api(call.field, videoFile.size)]
               [] call.scorer = "p007" ->
                      analyzeVideo_p007(call.field,
                                        [originalname |-> call.name, size |-> call.size,
                                         path |-> path],
                                        key, reply, rnd)
               [] OTHER ->
                      generateRealisticVideoAnalysis(call.field, videoFile, key, reply)
    IN  [via |-> r.via, filepath |-> path, analysis |-> r.analysis]


(***************************************************************************)
(* Transcripts.  A text is a sequence of tokens: words, the white space    *)
(* between them (one token per character) and sentence marks, each a       *)
(* sequence of characters.  The regular expressions of the scorers are     *)
(* alternations of words; the alternatives of more than one word           *)
(* ('you know', 'i mean', 'sort of', 'could you', ...) are left out, as    *)
(* the texts below hold none of them.                                      *)
(***************************************************************************)
Space == <<" ">>
Newline == <<"\n">>
Stop == <<".">>
QuestionMark == <<"?">>
Digits == {"0", "1", "2", "3", "4", "5", "6", "7", "8", "9"}

isWhite(tok) == \A i \in 1..Len(tok) : tok[i] \in WhiteSpace

\* the number of tokens of a text that satisfy a test
countWhere(text, Test(_)) == Cardinality({i \in 1..Len(text) : Test(text[i])})

\* text.split(' ').length: one more than the number of space characters
splitSpaceLength(text) == countWhere(text, LAMBDA tok : tok = Space) + 1

\* text.split(/\s+/).filter(Boolean).length: the runs of characters other than white space
splitWhiteLength(text) ==
    Cardinality({i \in 1..Len(text) : ~isWhite(text[i]) /\ (i = 1 \/ isWhite(text[i - 1]))})

\* text.trim().length: the characters from the first to the last token that is not
\* white space
trimLength(text) ==
    LET inked == {i \in 1..Len(text) : ~isWhite(text[i])}
        first == CHOOSE i \in inked : \A k \in inked : i <= k
        last  == CHOOSE j \in inked : \A k \in inked : j >= k
    IN  IF inked = {} THEN 0
        ELSE Cardinality(UNION {{<<i, c>> : c \in 1..Len(text[i])} : i \in first..last})

\* the text with every token in lower case: what a regular expression with the i flag
\* compares its alternatives with
lowered(text) == [i \in 1..Len(text) |-> toLowerCase(text[i])]

\* (text.match(/\b(w1|w2|...)\b/gi) || []).length, low the lowered text
\* (the alternatives of two words, such as "you know" or "could you", are left out of
\* the tables below: every one needs a word that no transcript of Shapes holds)
matchWords(low, alternatives) ==
    countWhere(low, LAMBDA tok : tok \in alternatives)

\* (text.match(/w1|w2|.../gi) || []).length, for texts whose words hold at most one match
matchParts(low, alternatives) ==
    countWhere(low, LAMBDA tok : \E a \in alternatives : includes(tok, a))

\* server.js: /\b(um|uh|like|you know|so|actually|basically|right|i mean)\b/gi
fillerWords_server ==
    { <<"u","m">>, <<"u","h">>, <<"l","i","k","e">>, <<"s","o">>,
      <<"a","c","t","u","a","l","l","y">>, <<"b","a","s","i","c","a","l","l","y">>,
      <<"r","i","g","h","t">> }

\* part_003: the words of technicalTerms, confidenceWords, fillerWords and questionWords
technicalTerms_p003 ==
    { <<"j","a","v","a","s","c","r","i","p","t">>, <<"r","e","a","c","t">>, <<"n","o","d","e">>,
      <<"p","y","t","h","o","n">>, <<"j","a","v","a">>, <<"d","a","t","a","b","a","s","e">>,
      <<"a","p","i">>, <<"s","y","s","t","e","m">>, <<"s","o","f","t","w","a","r","e">>,
      <<"c","o","d","e">>, <<"p","r","o","g","r","a","m","m","i","n","g">>,
      <<"d","e","v","e","l","o","p","m","e","n","t">>, <<"f","r","a","m","e","w","o","r","k">>,
      <<"l","i","b","r","a","r","y">>, <<"a","l","g","o","r","i","t","h","m">>,
      <<"d","a","t","a">>, <<"s","e","r","v","e","r">>, <<"f","r","o","n","t","e","n","d">>,
      <<"b","a","c","k","e","n","d">>, <<"f","u","l","l","s","t","a","c","k">>, <<"g","i","t">>,
      <<"d","o","c","k","e","r">>, <<"a","w","s">>, <<"c","l","o","u","d">>,
      <<"m","i","c","r","o","s","e","r","v","i","c","e","s">>, <<"t","e","s","t","i","n","g">>,
      <<"d","e","b","u","g","g","i","n","g">>, <<"d","e","p","l","o","y","m","e","n","t">>,
      <<"s","c","a","l","a","b","i","l","i","t","y">>,
      <<"p","e","r","f","o","r","m","a","n","c","e">>, <<"s","e","c","u","r","i","t","y">>,
      <<"a","r","c","h","i","t","e","c","t","u","r","e">> }

confidenceWords_p003 ==
    { <<"s","u","c","c","e","s","s","f","u","l","l","y">>, <<"a","c","h","i","e","v","e","d">>,
      <<"l","e","d">>, <<"i","m","p","l","e","m","e","n","t","e","d">>,
      <<"i","m","p","r","o","v","e","d">>, <<"o","p","t","i","m","i","z","e","d">>,
      <<"d","e","s","i","g","n","e","d">>, <<"d","e","v","e","l","o","p","e","d">>,
      <<"m","a","n","a","g","e","d">>, <<"c","r","e","a","t","e","d">>, <<"b","u","i","l","t">>,
      <<"d","e","l","i","v","e","r","e","d">>, <<"s","o","l","v","e","d">>,
      <<"e","x","p","e","r","i","e","n","c","e">>, <<"e","x","p","e","r","t","i","s","e">>,
      <<"p","r","o","f","i","c","i","e","n","t">>, <<"s","k","i","l","l","e","d">>,
      <<"a","c","c","o","m","p","l","i","s","h","e","d">>,
      <<"r","e","s","p","o","n","s","i","b","l","e">>,
      <<"c","o","n","t","r","i","b","u","t","e","d">>,
      <<"c","o","l","l","a","b","o","r","a","t","e","d">> }

fillerWords_p003 ==
    { <<"u","m">>, <<"u","h">>, <<"l","i","k","e">>, <<"a","c","t","u","a","l","l","y">>,
      <<"b","a","s","i","c","a","l","l","y">>, <<"w","e","l","l">>, <<"s","o">>,
      <<"r","i","g","h","t">>, <<"o","k","a","y">> }

questionWords_p003 ==
    { <<"w","h","a","t">>, <<"h","o","w">>, <<"w","h","y">>, <<"w","h","e","n">>,
      <<"w","h","e","r","e">>, <<"w","h","i","c","h">>, <<"w","h","o">> }

\* part_003 specificMetrics: /\b(\d+%|\d+\s*(percent|times|...|hours))\b/gi; the units
metricUnits_p003 ==
    { <<"p","e","r","c","e","n","t">>, <<"t","i","m","e","s">>, <<"y","e","a","r","s">>,
      <<"m","o","n","t","h","s">>, <<"w","e","e","k","s">>, <<"d","a","y","s">>,
      <<"u","s","e","r","s">>, <<"c","u","s","t","o","m","e","r","s">>,
      <<"p","r","o","j","e","c","t","s">>, <<"t","e","a","m">>, <<"m","e","m","b","e","r","s">>,
      <<"m","i","l","l","i","o","n">>, <<"t","h","o","u","s","a","n","d">>,
      <<"h","o","u","r","s">> }

\* a token (in lower case) that is digits followed by a unit
isMetric_p003(tok) ==
    \E k \in 1..(Len(tok) - 1) :
        /\ \A i \in 1..k : tok[i] \in Digits
        /\ SubSeq(tok, k + 1, Len(tok)) \in metricUnits_p003

\* part_002: /confident|experience|successful|strong|expert|skilled/gi
confidenceWords_p002 ==
    { <<"c","o","n","f","i","d","e","n","t">>, <<"e","x","p","e","r","i","e","n","c","e">>,
      <<"s","u","c","c","e","s","s","f","u","l">>, <<"s","t","r","o","n","g">>,
      <<"e","x","p","e","r","t">>, <<"s","k","i","l","l","e","d">> }

\* part_002: /code|software|development|system|technology|programming/gi
technicalWords_p002 ==
    { <<"c","o","d","e">>, <<"s","o","f","t","w","a","r","e">>,
      <<"d","e","v","e","l","o","p","m","e","n","t">>, <<"s","y","s","t","e","m">>,
      <<"t","e","c","h","n","o","l","o","g","y">>,
      <<"p","r","o","g","r","a","m","m","i","n","g">> }

\* the words the texts are made of
word ==
    [ plain |-> <<"p","e","o","p","l","e">>, tech |-> <<"s","o","f","t","w","a","r","e">>, conf |-> <<"e","x","p","e","r","i","e","n","c","e">>,
      filler |-> <<"u","m">>, metric |-> <<"4","0","p","e","r","c","e","n","t">>, ask |-> <<"h","o","w">> ]

\* n copies of a token
copies(n, tok) == [i \in 1..n |-> tok]

\* the words joined by the separator sep, itself a sequence of white-space tokens
joined(ws, sep) ==
    LET k == Len(sep) + 1
        n == IF ws = <<>> THEN 0 ELSE Len(ws) * k - Len(sep)
    IN  [p \in 1..n |-> IF (p - 1) % k = 0 THEN ws[((p - 1) \div k) + 1] ELSE sep[(p - 1) % k]]

\* The text of a shape: lead spaces, then the words (so many of each kind, a question
\* last) joined by the separator, then the sentence marks, then trail spaces
textOf(shape) ==
    LET ws == copies(shape.plain, word.plain) \o copies(shape.tech, word.tech)
                \o copies(shape.conf, word.conf) \o copies(shape.filler, word.filler)
                \o copies(shape.metric, word.metric) \o copies(shape.ask, word.ask)
    IN  copies(shape.lead, Space) \o joined(ws, shape.sep)
            \o copies(shape.ask, QuestionMark) \o copies(shape.stops, Stop)
            \o copies(shape.trail, Space)

NoShape == [lead |-> 0, sep |-> <<Space>>, trail |-> 0, plain |-> 0, tech |-> 0, conf |-> 0,
            filler |-> 0, metric |-> 0, ask |-> 0, stops |-> 0]

\* silence and short answers: up to 19 plain words, with white space of several kinds
ShortShapes ==
    {[NoShape EXCEPT !.plain = n, !.lead = l, !.sep = s, !.trail = t] :
        n \in {0, 1, 4, 5, 19}, l \in {0, 1, 4, 19},
        s \in {<<Space>>, <<Space, Space>>, <<Newline>>}, t \in {0, 1}}

\* answers: words of every kind separated by single spaces, in two sentences
AnswerShapes ==
    {[NoShape EXCEPT !.plain = n, !.tech = a, !.conf = b, !.filler = c, !.metric = d,
                     !.ask = e, !.stops = 2] :
        n \in {12, 40, 95}, a \in {0, 3, 5, 6}, b \in {0, 2, 3}, c \in {0, 2, 6},
        d \in {0, 1}, e \in {0, 1}}

Shapes == ShortShapes \cup AnswerShapes

(***************************************************************************)
(* The transcript scorers                                                  *)
(***************************************************************************)
\* server.js: the fallback analysis of /api/analyze/video
fallbackAnalysis_server(field, fullText) ==
    LET words         == splitWhiteLength(fullText)
        fillerMatches == matchWords(lowered(fullText), fillerWords_server)
        sentences     == Max(1, countWhere(fullText, LAMBDA tok : tok \in {Stop, QuestionMark}))
        avgWordsPerSentence == Max(1, (2 * words + sentences) \div (2 * sentences))
        excess        == Max(0, (avgWordsPerSentence - 25) * 20)
        scored        == Max(100, Min(1000, 800 - fillerMatches * 40 - excess))
        summary       == [NoSummary EXCEPT !.size = words,
                             !.band = IF Len(fullText) = 0 THEN "no speech" ELSE "basic"]
    IN  IF trimLength(fullText) = 0
        THEN Analysis(JNum(MathRound(200)),
                      JArr(<<[timestamp |-> Stamp(0, 0),
                              text |-> Text("server.mistake.nospeech", <<>>, 0)]>>),
                      JArr(<<Text("server.tip.nospeech", <<>>, 1),
                             Text("server.tip.nospeech", <<>>, 2),
                             Text("server.tip.nospeech", <<>>, 3)>>),
                      summary)
        ELSE IF words < 20
        THEN Analysis(JNum(MathRound(400)),
                      JArr(<<[timestamp |-> Stamp(0, 0),
                              text |-> Text("server.mistake.toobrief", <<>>, words)]>>),
                      JArr(<<Text("server.tip.brief", <<>>, 1),
                             Text("server.tip.brief", <<>>, 2),
                             Text("server.tip.brief", <<>>, 3)>>),
                      summary)
        ELSE Analysis(JNum(MathRound(scored)),
                      JArr((IF fillerMatches > 5
                            THEN <<[timestamp |-> Stamp(0, 0),
                                    text |-> Text("server.mistake.filler", <<>>, fillerMatches)]>>
                            ELSE <<>>)
                           \o (IF avgWordsPerSentence > 30
                               THEN <<[timestamp |-> Stamp(0, 0),
                                       text |-> Text("server.mistake.longsentences", <<>>,
                                                     avgWordsPerSentence)]>>
                               ELSE <<>>)),
                      JArr((IF fillerMatches > 3
                            THEN <<Text("server.tip.pause", <<>>, 0)>> ELSE <<>>)
                           \o (IF avgWordsPerSentence > 25
                               THEN <<Text("server.tip.concise", <<>>, 0)>> ELSE <<>>)
                           \o <<Text("server.tip.eyecontact", <<>>, 0),
                                Text("server.tip.examples", field, 0)>>),
                      summary)

\* part_003 findFillerTimestamp(segments, fillerCount); a segment's start is in seconds
findFillerTimestamp(segments, fillerCount) ==
    IF Len(segments) = 0 THEN Stamp(1, 15)
    ELSE LET segment == segments[(Len(segments) \div 2) + 1]
         IN  Stamp(segment.start \div 60, segment.start % 60)

\* part_003: the rating of an answer of at least 20 words, a variant without the
\* bonus for question words
rating_p003_noQuestionBonus(wordCount, technicalTerms, confidenceWords, specificMetrics, fillerWords, questionWords, fieldLower) ==
    LET rating == 400
            + (IF wordCount > 50 THEN 100 ELSE 0)
            + (IF wordCount > 100 THEN 50 ELSE 0)
            + (IF technicalTerms > 2 THEN 100 ELSE 0)
            + (IF technicalTerms > 5 THEN 50 ELSE 0)
            + (IF confidenceWords > 2 THEN 100 ELSE 0)
            + (IF specificMetrics > 0 THEN 100 ELSE 0)
            + (IF fillerWords * 20 < wordCount THEN 50 ELSE 0)
            + (IF includes(fieldLower, lit.senior) /\ technicalTerms > 4 THEN 50 ELSE 0)
            + (IF includes(fieldLower, lit.intern) /\ confidenceWords > 1 THEN 50 ELSE 0)
    IN  Min(900, Max(100, ((rating * 2 + 50) \div 100) * 50))

\* part_003: let rating = 4; ...; rating = Math.min(9, Math.max(1, Math.round(rating * 2) / 2))
rating_p003(wordCount, technicalTerms, confidenceWords, specificMetrics, fillerWords, questionWords, fieldLower) ==
    LET rating == 400
            + (IF wordCount > 50 THEN 100 ELSE 0)
            + (IF wordCount > 100 THEN 50 ELSE 0)
            + (IF technicalTerms > 2 THEN 100 ELSE 0)
            + (IF technicalTerms > 5 THEN 50 ELSE 0)
            + (IF confidenceWords > 2 THEN 100 ELSE 0)
            + (IF specificMetrics > 0 THEN 100 ELSE 0)
            + (IF fillerWords * 20 < wordCount THEN 50 ELSE 0)
            + (IF questionWords > 0 THEN 50 ELSE 0)
            + (IF includes(fieldLower, lit.senior) /\ technicalTerms > 4 THEN 50 ELSE 0)
            + (IF includes(fieldLower, lit.intern) /\ confidenceWords > 1 THEN 50 ELSE 0)
    IN  Min(900, Max(100, ((rating * 2 + 50) \div 100) * 50))

\* part_003 analyzeRealSpeech(transcription, field)
analyzeRealSpeech(transcription, field) ==
    LET text            == transcription.text
        wordCount       == splitSpaceLength(text)
        low             == lowered(text)
        technicalTerms  == matchWords(low, technicalTerms_p003)
        confidenceWords == matchWords(low, confidenceWords_p003)
        fillerWords     == matchWords(low, fillerWords_p003)
        specificMetrics == countWhere(low, isMetric_p003)
        questionWords   == matchWords(low, questionWords_p003)
        rating == rating_p003(wordCount, technicalTerms, confidenceWords, specificMetrics,
                              fillerWords, questionWords, toLowerCase(field))
        mistakes ==
            (IF fillerWords * 15 > wordCount
             THEN <<[timestamp |-> findFillerTimestamp(transcription.segments, fillerWords),
                     text |-> Text("p003.mistake.filler", <<>>,
                                   (200 * fillerWords + wordCount) \div (2 * wordCount))]>>
             ELSE <<>>)
            \o (IF specificMetrics = 0 /\ wordCount > 30
                THEN <<[timestamp |-> Stamp(1, 30), text |-> Text("p003.mistake.metrics", <<>>, 0)]>>
                ELSE <<>>)
            \o (IF technicalTerms < 2 /\ wordCount > 30
                THEN <<[timestamp |-> Stamp(2, 0), text |-> Text("p003.mistake.terms", field, 0)]>>
                ELSE <<>>)
            \o (IF confidenceWords < 2 /\ wordCount > 40
                THEN <<[timestamp |-> Stamp(1, 45),
                        text |-> Text("p003.mistake.confidence", <<>>, 0)]>>
                ELSE <<>>)
        tips ==
            << Text("p003.tip.counts", <<>>, wordCount * 10000 + technicalTerms * 100 + confidenceWords),
               IF technicalTerms > 3 THEN Text("p003.tip.vocabulary", <<>>, 0)
               ELSE Text("p003.tip.moreterms", field, 0),
               IF confidenceWords > 2 THEN Text("p003.tip.confident", <<>>, 0)
               ELSE Text("p003.tip.achievement", <<>>, 0),
               IF specificMetrics > 0 THEN Text("p003.tip.quantified", <<>>, 0)
               ELSE Text("p003.tip.numbers", <<>>, 0),
               IF fillerWords * 25 < wordCount THEN Text("p003.tip.fluent", <<>>, 0)
               ELSE Text("p003.tip.lessfiller", <<>>, 0) >>
    IN  IF wordCount < 5
        THEN Analysis(JNum(0),
                      JArr(<<[timestamp |-> Stamp(0, 5),
                              text |-> Text("p003.mistake.nospeech", <<>>, 0)]>>),
                      JArr([i \in 1..4 |-> Text("p003.tip.nospeech", <<>>, i)]),
                      [NoSummary EXCEPT !.band = "no speech"])
        ELSE IF wordCount < 20
        THEN Analysis(JNum(200),
                      JArr(<<[timestamp |-> Stamp(0, 10),
                              text |-> Text("p003.mistake.toobrief", <<>>, 0)]>>),
                      JArr([i \in 1..4 |-> Text("p003.tip.brief", <<>>, i)]),
                      [NoSummary EXCEPT !.size = wordCount, !.band = "brief"])
        ELSE Analysis(JNum(rating),
                      JArr(SubSeq(mistakes, 1, Min(3, Len(mistakes)))),
                      JArr(SubSeq(tips, 1, 5)),
                      [NoSummary EXCEPT !.size = wordCount, !.rating = rating,
                          !.band = IF rating >= 700 THEN "strong"
                                   ELSE IF rating >= 500 THEN "good" ELSE "focus"])

\* part_002 generateAnalysisFromTranscript(transcription, field)
generateAnalysisFromTranscript(transcription, field) ==
    LET text            == transcription.text
        wordCount       == splitSpaceLength(text)
        low             == lowered(text)
        confidenceWords == matchParts(low, confidenceWords_p002)
        technicalWords  == matchParts(low, technicalWords_p002)
        sum    == 500 + (IF wordCount > 30 THEN 100 ELSE 0)
                      + (IF confidenceWords > 2 THEN 100 ELSE 0)
                      + (IF technicalWords > 2 THEN 100 ELSE 0)
                      + (IF \E i \in 1..Len(text) : includes(text[i], QuestionMark)
                         THEN 50 ELSE 0)
        rating == Min(900, Max(500, MathRound(sum)))
    IN  Analysis(JNum(rating),
                 JArr(<<IF wordCount < 50
                        THEN [timestamp |-> Stamp(0, 15), text |-> Text("p002.mistake.expand", <<>>, 0)]
                        ELSE [timestamp |-> Stamp(0, 30), text |-> Text("p002.mistake.metrics", <<>>, 0)]>>
                      \o (IF confidenceWords < 2
                          THEN <<[timestamp |-> Stamp(1, 20),
                                  text |-> Text("p002.mistake.confidence", <<>>, 0)]>>
                          ELSE <<>>)),
                 JArr(<<Text("p002.tip.words", <<>>, wordCount),
                        IF technicalWords > 0 THEN Text("p002.tip.goodterms", <<>>, 0)
                        ELSE Text("p002.tip.moreterms", field, 0),
                        Text("p002.tip.star", <<>>, 0),
                        IF confidenceWords > 2 THEN Text("p002.tip.keepconfidence", <<>>, 0)
                        ELSE Text("p002.tip.projectconfidence", <<>>, 0)>>),
                 [NoSummary EXCEPT !.size = wordCount * 100 + confidenceWords, !.rating = rating,
                     !.band = IF rating >= 700 THEN "strong" ELSE "good"])

(***************************************************************************)
(* part_006: the analysis parsed from Cohere's text, and the generated one *)
(***************************************************************************)
\* A line of Cohere's text, trimmed and not empty: the header it includes ("rating:",
\* "mistakes:", "tips:", "summary:" or "none"), its length, and the number its first
\* run of digits reads as (-1: no digit in the line)
Line(header, length, digits) == [header |-> header, length |-> length, digits |-> digits]

\* Math.random() draws, sampled: a timestamp is drawn for every mistake
stamp_p006(rnd, i, minutes) == Stamp((rnd.m + i) % minutes, (rnd.s + 13 * i) % 60)

\* part_006: rating = Math.max(1, Math.min(10, parseInt(ratingMatch[1]))), 7 by default
parseRating(lines) ==
    LET found == {i \in 1..Len(lines) : lines[i].header = "rating:"}
        ratingLine == lines[CHOOSE i \in found : \A k \in found : i <= k]
    IN  IF found = {} \/ ratingLine.digits < 0 THEN 700
        ELSE Max(100, Min(1000, ratingLine.digits * 100))

\* variant: the tips header leaves inMistakes as it is
RECURSIVE parseLines_tipsKeepMistakes(_, _, _, _)
parseLines_tipsKeepMistakes(lines, i, flags, acc) ==
    IF i > Len(lines) THEN acc
    ELSE LET line == lines[i]
             set  == IF line.header = "mistakes:"
                     THEN [inMistakes |-> TRUE, inTips |-> FALSE, inSummary |-> FALSE]
                     ELSE IF line.header = "tips:"
                     THEN [inMistakes |-> flags.inMistakes, inTips |-> TRUE, inSummary |-> FALSE]
                     ELSE IF line.header = "summary:"
                     THEN [inMistakes |-> FALSE, inTips |-> FALSE, inSummary |-> TRUE]
                     ELSE flags
         IN  IF line.header \in {"mistakes:", "tips:", "summary:"}
             THEN parseLines_tipsKeepMistakes(lines, i + 1, set, [acc EXCEPT !.flags = Append(@, set)])
             ELSE parseLines_tipsKeepMistakes(lines, i + 1, flags,
                     [mistakes |-> IF flags.inMistakes /\ line.length > 10
                                   THEN Append(acc.mistakes, i) ELSE acc.mistakes,
                      tips     |-> IF flags.inTips /\ line.length > 10
                                   THEN Append(acc.tips, i) ELSE acc.tips,
                      summary  |-> IF flags.inSummary /\ line.length > 20
                                   THEN i ELSE acc.summary,
                      flags    |-> Append(acc.flags, flags)])

\* part_006: the loop over the lines, with the three flags inMistakes, inTips, inSummary;
\* a line's header is the first of the tests it passes.  acc.mistakes and acc.tips hold
\* the places of the lines pushed, acc.summary the place of the line assigned last, and
\* acc.flags the flags as they stand after each line
RECURSIVE parseLines(_, _, _, _)
parseLines(lines, i, flags, acc) ==
    IF i > Len(lines) THEN acc
    ELSE LET line == lines[i]
             set  == IF line.header = "mistakes:"
                     THEN [inMistakes |-> TRUE, inTips |-> FALSE, inSummary |-> FALSE]
                     ELSE IF line.header = "tips:"
                     THEN [inMistakes |-> FALSE, inTips |-> TRUE, inSummary |-> FALSE]
                     ELSE IF line.header = "summary:"
                     THEN [inMistakes |-> FALSE, inTips |-> FALSE, inSummary |-> TRUE]
                     ELSE flags
         IN  IF line.header \in {"mistakes:", "tips:", "summary:"}
             THEN parseLines(lines, i + 1, set, [acc EXCEPT !.flags = Append(@, set)])
             ELSE parseLines(lines, i + 1, flags,
                     [mistakes |-> IF flags.inMistakes /\ line.length > 10
                                   THEN Append(acc.mistakes, i) ELSE acc.mistakes,
                      tips     |-> IF flags.inTips /\ line.length > 10
                                   THEN Append(acc.tips, i) ELSE acc.tips,
                      summary  |-> IF flags.inSummary /\ line.length > 20
                                   THEN i ELSE acc.summary,
                      flags    |-> Append(acc.flags, flags)])

\* the flags and the outputs before the loop
NoFlags == [inMistakes |-> FALSE, inTips |-> FALSE, inSummary |-> FALSE]
NoneParsed == [mistakes |-> <<>>, tips |-> <<>>, summary |-> 0, flags |-> <<>>]

\* part_006 parseAnalysisText(text, field)
parseAnalysisText(lines, field, rnd) ==
    LET parsed == parseLines(lines, 1, NoFlags, NoneParsed)
        mistakes == [k \in 1..Len(parsed.mistakes) |->
                        [timestamp |-> stamp_p006(rnd, k, 5),
                         text |-> Text("cohere.line", <<>>, parsed.mistakes[k])]]
        tips == [k \in 1..Len(parsed.tips) |-> Text("cohere.line", <<>>, parsed.tips[k])]
    IN  Analysis(JNum(parseRating(lines)),
                 JArr(SubSeq(mistakes, 1, Min(4, Len(mistakes)))),
                 JArr(SubSeq(tips, 1, Min(5, Len(tips)))),
                 [NoSummary EXCEPT !.field = IF parsed.summary = 0 THEN field ELSE <<>>,
                                   !.size = parsed.summary, !.band = "parsed"])

\* part_006 generateIntelligentAnalysis(field, hasVideo): rnd.base, rnd.p, rnd.q,
\* rnd.more are its Math.random() draws
generateIntelligentAnalysis(field, hasVideo, rnd) ==
    LET fieldLower == toLowerCase(field)
        baseRating == 600 + rnd.base * 100
        pattern ==
            IF includes(fieldLower, lit.java) \/ includes(fieldLower, lit.spring) THEN "java"
            ELSE IF \/ includes(fieldLower, lit.intern) \/ includes(fieldLower, lit.entry)
                    \/ includes(fieldLower, lit.student) THEN "intern"
            ELSE "software"
        rating == IF pattern = "intern" THEN baseRating - 100 ELSE baseRating
        selectedMistakes ==
            [k \in 1..(3 + rnd.more) |->
                [timestamp |-> stamp_p006(rnd, k, 4),
                 text |-> Text("p006.mistake", lit[pattern], rnd.p[k])]]
        selectedTips ==
            [k \in 1..(4 + rnd.more) |-> Text("p006.tip", lit[pattern], rnd.q[k])]
        finalRating == IF ~hasVideo THEN Max(500, rating - 100) ELSE rating
    IN  Analysis(JNum(finalRating), JArr(selectedMistakes), JArr(selectedTips),
                 [NoSummary EXCEPT !.field = field, !.size = rnd.base, !.band = "generated"])

(***************************************************************************)
(* Requests to the transcript and text handlers                            *)
(***************************************************************************)
AnalyzeHandlers == {"server", "p002", "p003", "p006"}

AnalyzeFields ==
    { <<"S","e","n","i","o","r"," ","J","a","v","a">>, <<"i","n","t","e","r","n">>,
      <<"n","u","r","s","e">> }

\* transcript.utterances of AssemblyAI, as part_003 keeps them; starts in seconds
SegmentLists == { <<>>, <<[start |-> 12], [start |-> 95]>> }

\* Cohere's text, as part_006 reads it
CohereTexts ==
    { << Line("rating:", 12, 8), Line("mistakes:", 9, -1), Line("none", 40, -1),
         Line("none", 8, -1), Line("tips:", 5, -1), Line("none", 30, 2),
         Line("summary:", 8, -1), Line("none", 60, -1) >>,
      << Line("rating:", 10, 15), Line("mistakes:", 9, -1), Line("none", 40, -1),
         Line("none", 41, -1), Line("none", 42, -1), Line("none", 43, -1),
         Line("none", 44, -1), Line("tips:", 5, -1), Line("none", 30, -1),
         Line("none", 31, -1), Line("none", 32, -1), Line("none", 33, -1),
         Line("none", 34, -1), Line("none", 35, -1) >>,
      << Line("rating:", 9, 0) >>,
      << Line("none", 50, 3) >>,
      << Line("mistakes:", 9, -1), Line("rating:", 14, -1) >> }

TextReplies ==
    {[kind |-> k, lines |-> <<>>] : k \in {"throws", "notok", "notext"}}
        \cup {[kind |-> "text", lines |-> ls] : ls \in CohereTexts}

\* the draws of parseAnalysisText and of generateIntelligentAnalysis
StampDraws == [m : {0, 3}, s : {0, 47}]

Draws ==
    [base : 0..2, more : {0, 1}, p : Shuffles(4), q : Shuffles(5), m : {0, 3}, s : {0, 47}]

NoDraw == [m |-> 0, s |-> 0]

\* whether the handler asks Cohere for the analysis:
\*   server.js: process.env.COHERE_API_KEY && fullText.trim().length > 10
\*   part_002:  !(!cohereApiKey || !transcription?.text);  part_006: if (cohereApiKey)
\*   part_003 never does
asksCohere(h, key, text) ==
    CASE h = "server" -> key # "unset" /\ trimLength(text) > 10
      [] h = "p002"   -> key # "unset" /\ Len(text) > 0
      [] h = "p006"   -> key # "unset"
      [] OTHER        -> FALSE

\* what the handler takes from Cohere's reply; taken is FALSE when it falls back
\*   server.js: the object between the braces if rating, mistakes and tips are truthy
\*   part_002:  JSON.parse of the match, whatever it holds
\*   part_006:  parseAnalysisText of the text
fromCohere(h, field, reply, rnd) ==
    CASE h = "server" ->
            [taken |-> /\ reply.kind = "object"
                       /\ truthy(reply.object.rating) /\ truthy(reply.object.mistakes)
                       /\ truthy(reply.object.tips),
             analysis |-> parsedAnalysis(reply.object)]
      [] h = "p002" ->
            [taken |-> reply.kind = "object", analysis |-> parsedAnalysis(reply.object)]
      [] OTHER ->
            [taken |-> reply.kind = "text",
             analysis |-> parseAnalysisText(reply.lines, field, rnd)]

\* the handler's own analysis
fallbackAnalysis(req, rnd) ==
    LET transcription == [text |-> textOf(req.shape), segments |-> req.segments]
    IN  CASE req.h = "server" -> fallbackAnalysis_server(req.field, transcription.text)
          [] req.h = "p002"   -> generateAnalysisFromTranscript(transcription, req.field)
          [] req.h = "p003"   -> analyzeRealSpeech(transcription, req.field)
          [] OTHER            -> generateIntelligentAnalysis(req.field, req.hasVideo, rnd)


(***************************************************************************)
(* Transcription by AssemblyAI: transcribeWithAssemblyAI of part_002 and   *)
(* getRealTranscription of part_003                                        *)
(***************************************************************************)
Transcribers == {"p002", "p003"}

\* the statuses a poll can report
Statuses == {"queued", "processing", "completed", "error"}

\* part_003: ... && attempts < 60
MaxAttempts == 60

NoTranscribe == [h |-> "none", key |-> FALSE]

\* the condition of the do ... while, with the status just polled and the polls made
\*   part_002: transcript.status === 'processing' || transcript.status === 'queued'
\*   part_003: (... same ...) && attempts < 60
pollsAgain(h, status, made) ==
    /\ status \in {"processing", "queued"}
    /\ h = "p003" => made < MaxAttempts

(***************************************************************************)
(* Uploads to the Express server: multer's disk storage                    *)
(***************************************************************************)
Requests == {1, 2}

\* file.originalname of the uploads
OriginalNames == { <<"a",".","m","p","4">>, <<"b",".","m","p","4">> }

\* the milliseconds the clock can advance while the requests are handled
MaxClock == 1

\* read and removed name the request whose upload this request's ffmpeg read and whose
\* upload its cleanup deleted, 0 for none
NoUpload == [pc |-> "idle", name |-> <<>>, path |-> <<>>, read |-> 0, removed |-> 0, status |-> 0]

\* filename: (req, file, cb) => cb(null, `${Date.now()}-${file.originalname}`), under
\* destination UPLOAD_DIR; the time is kept as a number in the first place of the path
storagePath(time, originalname) == <<time>> \o <<"-">> \o originalname

\* how the Whisper script and the reading of its transcript can end
WhisperOutcomes == {"failed", "missing", "unreadable", "transcribed"}

\* the files at a path of UPLOAD_DIR: none or one
filesAt(d, path) == {f \in d : f.path = path}

\* multer's write stream, opened with flag 'w': the file at the path is replaced
writeFile(d, path, content) ==
    {f \in d : f.path # path} \cup {[path |-> path, content |-> content]}

\* fs.unlinkSync(videoPath) inside try { } catch: a missing file is passed over
unlinkSync(d, path) == {f \in d : f.path # path}

(***************************************************************************)
(* The user store of the Express server: register, login, sessions         *)
(***************************************************************************)
\* the fields of a JSON body are strings; "" stands for an absent and for an empty
\* field: both are falsy, and neither is ever a key of users
Names == {"", "Ann"}
Emails == {"", "a@x", "b@x"}
RegisterPasswords == {"", "p"}
LoginPasswords == {"", "p", "q"}

\* the sessions the store takes in all
MaxSessions == 2

DigitChars == <<"0", "1", "2", "3", "4", "5", "6", "7", "8", "9">>

\* req.params.userId as it stands in the URL
UserIdParams == {<<DigitChars[n + 1]>> : n \in 0..MaxClock} \cup {<<"1", "x">>, <<"x">>}

\* req.body of a session: the client names the user it saves the session for
SessionBodies == [owner : Emails \ {""}]

\* parseInt(string): the leading decimal digits, NaN without one
RECURSIVE parseDigits(_, _, _)
parseDigits(s, i, acc) ==
    IF i > Len(s) \/ s[i] \notin Digits THEN acc
    ELSE parseDigits(s, i + 1, acc * 10 + ((CHOOSE n \in 1..10 : DigitChars[n] = s[i]) - 1))

parseInt(s) == IF s = <<>> \/ s[1] \notin Digits THEN NaN ELSE Num(parseDigits(s, 1, 0))

NoAuthRequest == [op |-> "none", name |-> "", email |-> "", password |-> "", userId |-> <<>>, owner |-> ""]
NoAuthResponse == [status |-> 0, body |-> [error |-> ""]]

\* users.has(email), users.get(email)
usersHas(us, email) == \E i \in DOMAIN us : us[i].email = email
usersGet(us, email) == us[CHOOSE i \in DOMAIN us : us[i].email = email]

\* const { password: _, ...userResponse } = user
userResponse_withPassword(user) == user
userResponse(user) == [f \in DOMAIN user \ {"password"} |-> user[f]]

(***************************************************************************)
(* The handler of api/analyze.js                                           *)
(***************************************************************************)
Methods == {"POST", "GET", "OPTIONS"}

\* req.headers['content-type'], <<>> when the header is absent
ContentTypes ==
    { <<>>,
      <<"m","u","l","t","i","p","a","r","t","/","f","o","r","m","-","d","a","t","a",";"," ","b","o","u","n","d","a","r","y","=","x">>,
      <<"a","p","p","l","i","c","a","t","i","o","n","/","j","s","o","n">>,
      <<"a","p","p","l","i","c","a","t","i","o","n","/","j","s","o","n",";"," ","c","h","a","r","s","e","t","=","u","t","f","-","8">>,
      <<"t","e","x","t","/","p","l","a","i","n">> }

\* req.headers['content-length'], <<>> when the header is absent
ContentLengths ==
    { <<>>, <<"1","0","4","8","5","7","6">>, <<"5","2","4","2","8","8","0","0">>, <<"5","2","4","2","8","8","0","1">> }

multipartFormData == <<"m","u","l","t","i","p","a","r","t","/","f","o","r","m","-","d","a","t","a">>
applicationJson == <<"a","p","p","l","i","c","a","t","i","o","n","/","j","s","o","n">>

NoHandlerRequest ==
    [method |-> "none", contentType |-> <<>>, contentLength |-> <<>>, field |-> <<>>,
     hasVideo |-> FALSE]
NoHandlerResponse ==
    [status |-> 0, source |-> "none", processed |-> FALSE, actualVideoProcessed |-> FALSE,
     analysis |-> Analysis(JUndefined, JUndefined, JUndefined, NoSummary)]

\* the rating-0 analysis of if (!hasVideo)
noVideoAnalysis(field) ==
    Analysis(JNum(0),
             JArr(<< [timestamp |-> Stamp(0, 0), text |-> Text("api.mistake.novideo", <<>>, 0)] >>),
             JArr([i \in 1..5 |-> Text("api.tip.novideo", <<>>, i)]),
             [NoSummary EXCEPT !.field = field])

\* handler(req, res): req.field is req.query.field of a multipart request and body.field
\* of a JSON request, req.hasVideo is body.hasVideo
handler_api(req) ==
    LET contentLength == IF req.contentLength = <<>> THEN Num(0) ELSE parseInt(req.contentLength)
        multipart == includes(req.contentType, multipartFormData)
        json      == ~multipart /\ includes(req.contentType, applicationJson)
        field     == IF (multipart \/ json) /\ req.field # <<>> THEN req.field ELSE lit.general
        hasVideo  == multipart \/ (json /\ req.hasVideo)
        videoSize == IF multipart THEN contentLength.v ELSE 0
    IN  IF req.method = "OPTIONS" THEN [NoHandlerResponse EXCEPT !.status = 200]
        ELSE IF req.method # "POST" THEN [NoHandlerResponse EXCEPT !.status = 405]
        ELSE IF ~contentLength.nan /\ contentLength.v > 50 * MB
        THEN [NoHandlerResponse EXCEPT !.status = 413, !.source = "too-large"]
        ELSE IF ~hasVideo
        THEN [status |-> 200, source |-> "no-video-detected", processed |-> FALSE,
              actualVideoProcessed |-> FALSE, analysis |-> noVideoAnalysis(field)]
        ELSE [status |-> 200, source |-> "video-content-analysis", processed |-> TRUE,
              actualVideoProcessed |-> TRUE,
              analysis |-> generateVideoBasedAnalysis_api(field, videoSize)]

\* the register handler: the store and the response it leaves
register_overwriting(us, time, name, email, password) ==
    LET user == [id |-> time, name |-> name, email |-> email, password |-> password,
                 joinDate |-> time, sessions |-> <<>>]
    IN  IF name = "" \/ email = "" \/ password = ""
        THEN [users |-> us, status |-> 400, body |-> [error |-> "All fields are required"]]
        ELSE [users |-> [i \in 1..(IF usersHas(us, email) THEN Len(us) ELSE Len(us) + 1) |->
                            IF i <= Len(us) /\ us[i].email # email THEN us[i] ELSE user],
              status |-> 200, body |-> [user |-> userResponse(user)]]
register(us, time, name, email, password) ==
    LET user == [id |-> time, name |-> name, email |-> email, password |-> password,
                 joinDate |-> time, sessions |-> <<>>]
    IN  IF name = "" \/ email = "" \/ password = ""
        THEN [users |-> us, status |-> 400, body |-> [error |-> "All fields are required"]]
        ELSE IF usersHas(us, email)
        THEN [users |-> us, status |-> 400, body |-> [error |-> "User already exists"]]
        ELSE [users |-> Append(us, user), status |-> 200,
              body |-> [user |-> userResponse(user)]]

\* the login handler: !user || user.password !== password
login_anyPassword(us, email, password) ==
    IF ~usersHas(us, email)
    THEN [status |-> 401, body |-> [error |-> "Invalid credentials"]]
    ELSE [status |-> 200, body |-> [user |-> userResponse(usersGet(us, email))]]
login(us, email, password) ==
    IF ~usersHas(us, email) \/ usersGet(us, email).password # password
    THEN [status |-> 401, body |-> [error |-> "Invalid credentials"]]
    ELSE [status |-> 200, body |-> [user |-> userResponse(usersGet(us, email))]]

\* Array.from(users.values()).find(u => u.id === parseInt(req.params.userId)): the place
\* of the first user with the id, 0 for undefined
findUser(us, param) ==
    LET id == parseInt(param)
        found == {i \in DOMAIN us : ~id.nan /\ us[i].id = id.v}
    IN  IF found = {} THEN 0 ELSE CHOOSE i \in found : \A k \in found : i <= k

\* GET /api/users/:userId/sessions
getSessions(us, param) ==
    IF findUser(us, param) = 0
    THEN [status |-> 404, body |-> [error |-> "User not found"]]
    ELSE [status |-> 200, body |-> [sessions |-> us[findUser(us, param)].sessions]]

\* POST /api/users/:userId/sessions: { id: Date.now(), ...req.body, date }
saveSession(us, time, param, body) ==
    LET session == [id |-> time, owner |-> body.owner, date |-> time]
        at == findUser(us, param)
    IN  IF at = 0
        THEN [users |-> us, status |-> 404, body |-> [error |-> "User not found"]]
        ELSE [users |-> [us EXCEPT ![at].sessions = Append(@, session)],
              status |-> 200, body |-> [session |-> session]]

(***************************************************************************)
(* The handlers at rest                                                    *)
(***************************************************************************)
NoAnalyze == [h |-> "none", field |-> <<>>, shape |-> NoShape, segments |-> <<>>,
              hasVideo |-> FALSE]

NoResult == [via |-> "none", analysis |-> Analysis(JUndefined, JUndefined, JUndefined, NoSummary)]

QIdle == qpc = "idle" /\ qreq = NoRequest /\ qresp = NoResponse
FIdle == fpc = "idle" /\ fcall = NoCall /\ fres = <<>>
TIdle == tpc = "idle" /\ treq = NoAnalyze /\ tres = NoResult
PIdle ==
    /\ ppc = "idle" /\ preq = NoTranscribe /\ attempts = 0
    /\ transcript = "none" /\ presp = 0
UIdle == now = 0 /\ disk = {} /\ upl = [r \in Requests |-> NoUpload]
AIdle == users = <<>> /\ areq = NoAuthRequest /\ aresp = NoAuthResponse
HIdle == hreq = NoHandlerRequest /\ hresp = NoHandlerResponse

(***************************************************************************)
(* The questions handlers' steps                                           *)
(***************************************************************************)
QInit ==
    /\ env \in {"unset", "blank", "set"}
    /\ QIdle /\ FIdle /\ TIdle /\ PIdle /\ UIdle /\ AIdle /\ HIdle

\* a request that fails validation: 500 from the outer catch, or 400 'field is required'
QReject ==
    /\ qpc = "idle"
    /\ \E h \in Handlers, body \in Bodies :
          LET r == readBody(h, body)
          IN  /\ r.throws \/ r.field = <<>>
              /\ qreq' = [h |-> h, body |-> body, field |-> r.field, count |-> r.count]
              /\ qresp' = ErrorResponse(IF r.throws THEN 500 ELSE 400)
    /\ qpc' = "done"
    /\ UNCHANGED <<env, fvars, tvars, pvars, uvars, avars, hvars>>

\* a valid request: the handler calls Cohere and waits for the reply, or goes straight
\* to the template path
QAccept ==
    /\ qpc = "idle"
    /\ \E h \in Handlers, body \in Bodies :
          LET r == readBody(h, body)
          IN  /\ ~r.throws /\ r.field # <<>>
              /\ qreq' = [h |-> h, body |-> body, field |-> r.field, count |-> r.count]
              /\ qpc' = IF callsCohere(h, env) THEN "cohere" ELSE "templates"
    /\ qresp' = NoResponse
    /\ UNCHANGED <<env, fvars, tvars, pvars, uvars, avars, hvars>>

\* variant: a call that yields no usable questions ends the request with 500
QCohereReturns_noFallback ==
    /\ qpc = "cohere"
    /\ \E reply \in CohereReplies :
          LET r == cohereResponse(qreq.h, qreq.count, reply)
          IN  qresp' = IF r.status = 200 THEN r ELSE ErrorResponse(500)
    /\ qpc' = "done"
    /\ UNCHANGED <<env, qreq, fvars, tvars, pvars, uvars, avars, hvars>>

\* the call returns: the handler answers with Cohere's questions, or goes on to the
\* template path
QCohereReturns ==
    /\ qpc = "cohere"
    /\ \E reply \in CohereReplies :
          LET r == cohereResponse(qreq.h, qreq.count, reply)
          IN  IF r.status = 200
              THEN qresp' = r /\ qpc' = "done"
              ELSE qresp' = NoResponse /\ qpc' = "templates"
    /\ UNCHANGED <<env, qreq, fvars, tvars, pvars, uvars, avars, hvars>>

\* the template path: select the pool, shuffle, cut, answer 200
QTemplatePath ==
    /\ qpc = "templates"
    /\ \E p \in Shuffles(Len(selectedTemplates(qreq.h, qreq.field).items)) :
          qresp' = templateResponse(qreq.h, qreq.field, qreq.count, p)
    /\ qpc' = "done"
    /\ UNCHANGED <<env, qreq, fvars, tvars, pvars, uvars, avars, hvars>>

\* the response has been sent and the request is over: the handler keeps nothing
QFinish ==
    /\ qpc = "done"
    /\ qpc' = "idle"
    /\ qreq' = NoRequest
    /\ qresp' = NoResponse
    /\ UNCHANGED <<env, fvars, tvars, pvars, uvars, avars, hvars>>

QNext == QReject \/ QAccept \/ QCohereReturns \/ QTemplatePath \/ QFinish

SpecQuestions == QInit /\ [][QNext]_vars

(***************************************************************************)
(* The file-identity handlers' steps                                       *)
(***************************************************************************)
\* a field and a file are chosen
FChoose ==
    /\ fpc = "idle"
    /\ \E s \in FileScorers, f \in ScoreFields, n \in UploadNames, z \in FileSizes :
          fcall' = [scorer |-> s, field |-> f, name |-> n, size |-> z]
    /\ fpc' = "chosen"
    /\ fres' = <<>>
    /\ UNCHANGED <<env, qvars, tvars, pvars, uvars, avars, hvars>>

\* the file is uploaded (again) and scored
FInvoke ==
    /\ fpc = "chosen"
    /\ Len(fres) < MaxInvocations
    /\ \E path \in Filepaths,
          reply \in (IF fcall.scorer \in {"p005", "p007"} /\ triesCohere_p005(env)
                     THEN ScorerReplies ELSE {NoReply}) :
       \E rnd \in (IF fcall.scorer = "p007" /\ ~cohereTaken_p007(env, reply)
                   THEN Draws_p007 ELSE {NoDraw_p007}) :
          fres' = Append(fres, invokeFileScorer(fcall, path, env, reply, rnd))
    /\ UNCHANGED <<env, fpc, fcall, qvars, tvars, pvars, uvars, avars, hvars>>

FFinish ==
    /\ fpc = "chosen"
    /\ fpc' = "idle"
    /\ fcall' = NoCall
    /\ fres' = <<>>
    /\ UNCHANGED <<env, qvars, tvars, pvars, uvars, avars, hvars>>

FInit ==
    /\ env \in {"unset", "blank", "set"}
    /\ QIdle /\ FIdle /\ TIdle /\ PIdle /\ UIdle /\ AIdle /\ HIdle

FNext == FChoose \/ FInvoke \/ FFinish

SpecFileScore == FInit /\ [][FNext]_vars

(***************************************************************************)
(* The transcript and text handlers' steps                                 *)
(***************************************************************************)
\* a video has been transcribed (server.js, part_002, part_003) or a request has come
\* in (part_006)
TRequest ==
    /\ tpc = "idle"
    /\ \E h \in AnalyzeHandlers, f \in AnalyzeFields :
        \E shape \in (IF h = "p006" THEN {NoShape} ELSE Shapes),
           segs \in (IF h = "p003" THEN SegmentLists ELSE {<<>>}),
           hasVideo \in (IF h = "p006" THEN BOOLEAN ELSE {TRUE}) :
             /\ treq' = [h |-> h, field |-> f, shape |-> shape, segments |-> segs,
                         hasVideo |-> hasVideo]
             /\ tpc' = IF asksCohere(h, env, textOf(shape)) THEN "cohere" ELSE "fallback"
    /\ tres' = NoResult
    /\ UNCHANGED <<env, qvars, fvars, pvars, uvars, avars, hvars>>

\* Cohere's reply arrives: the handler answers with it or goes on to its own analysis
TCohereReturns ==
    /\ tpc = "cohere"
    /\ \E reply \in (IF treq.h = "p006" THEN TextReplies ELSE AnalysisReplies),
          rnd \in (IF treq.h = "p006" THEN StampDraws ELSE {NoDraw}) :
          LET r == fromCohere(treq.h, treq.field, reply, rnd)
          IN  IF r.taken
              THEN tres' = [via |-> "cohere", analysis |-> r.analysis] /\ tpc' = "done"
              ELSE tres' = NoResult /\ tpc' = "fallback"
    /\ UNCHANGED <<env, treq, qvars, fvars, pvars, uvars, avars, hvars>>

TFallback ==
    /\ tpc = "fallback"
    /\ \E rnd \in (IF treq.h = "p006" THEN Draws ELSE {NoDraw}) :
          tres' = [via |-> "fallback", analysis |-> fallbackAnalysis(treq, rnd)]
    /\ tpc' = "done"
    /\ UNCHANGED <<env, treq, qvars, fvars, pvars, uvars, avars, hvars>>

\* the response has been sent
TFinish ==
    /\ tpc = "done"
    /\ tpc' = "idle"
    /\ treq' = NoAnalyze
    /\ tres' = NoResult
    /\ UNCHANGED <<env, qvars, fvars, pvars, uvars, avars, hvars>>

TInit ==
    /\ env \in {"unset", "blank", "set"}
    /\ QIdle /\ FIdle /\ TIdle /\ PIdle /\ UIdle /\ AIdle /\ HIdle

TNext == TRequest \/ TCohereReturns \/ TFallback \/ TFinish

SpecAnalyze == TInit /\ [][TNext]_vars
(***************************************************************************)
(* Properties of the questions handlers                                    *)
(***************************************************************************)
CategoryOrder == <<"intern", "java", "software", "data", "marketing", "product", "design">>

KeywordsOf(h, c) ==
    UNION {{fieldMappings(h)[i].keywords[k] : k \in 1..Len(fieldMappings(h)[i].keywords)} :
              i \in {j \in 1..Len(fieldMappings(h)) : fieldMappings(h)[j].category = c}}

HasKeyword(h, c, f) == \E kw \in KeywordsOf(h, c) : includes(f, kw)

FirstMatch(h, f) ==
    LET hits == {i \in 1..Len(CategoryOrder) : HasKeyword(h, CategoryOrder[i], f)}
    IN  IF hits = {} THEN "generic"
        ELSE CategoryOrder[CHOOSE i \in hits : \A j \in hits : i <= j]

NonBlank(s) == \E i \in 1..Len(s) : s[i] \notin WhiteSpace

\* the field written in another letter case, or with white space added around it
Variants(raw) ==
    { toUpperCase(raw), toLowerCase(raw), <<" ">> \o raw, raw \o <<"\t">>,
      <<"\n", " ">> \o toUpperCase(raw) \o <<" ">> }

TemplateAnswer == qpc = "done" /\ qresp.status = 200 /\ ~qresp.ai

\* C2: on the template path the pool chosen is that of the first category, in the order
\* intern, java, software, data, marketing, product, design, one of whose keywords is
\* a substring of the trimmed, lower-cased field; the same field in another letter case
\* or with white space around it gets the same category.
C2_FirstMatchAnyCase ==
    TemplateAnswer =>
        LET raw == qreq.body.field.s
        IN  /\ qresp.selected = FirstMatch(qreq.h, toLowerCase(trim(raw)))
            /\ \A g \in Variants(raw) :
                  selectedTemplates(qreq.h,
                      readBody(qreq.h, [qreq.body EXCEPT !.field.s = g]).field).pool
                  = qresp.selected

\* a field in upper case with white space around it, holding a java keyword and a
\* software keyword, answered from the java pool
C2_Witness ==
    /\ TemplateAnswer
    /\ qresp.selected = "java"
    /\ qreq.body.field.s # toLowerCase(trim(qreq.body.field.s))
    /\ qreq.body.field.s[1] \in WhiteSpace
    /\ HasKeyword(qreq.h, "software", toLowerCase(qreq.body.field.s))

\* C3: a request whose field is a string that is not blank is answered 200, whatever its
\* count; on the template path the questions come from one pool, which is the generic
\* pool exactly when no keyword of any category is a substring of the lower-cased field.
C3_TemplatePathTotal ==
    (qpc = "done" /\ qreq.body.field.t = "string" /\ NonBlank(qreq.body.field.s)) =>
        /\ qresp.status = 200
        /\ ~qresp.ai =>
              /\ qresp.selected \in
                    {fieldMappings(qreq.h)[i].category : i \in 1..Len(fieldMappings(qreq.h))}
                        \cup {"generic"}
              /\ \A i \in 1..Len(qresp.questions) : qresp.questions[i].pool = qresp.selected
              /\ qresp.selected = "generic" <=>
                    ~\E c \in {CategoryOrder[i] : i \in 1..Len(CategoryOrder)} :
                        HasKeyword(qreq.h, c, toLowerCase(qreq.body.field.s))

\* a request with a count that is no number and a field holding no keyword, answered 200
\* from the generic pool
C3_Witness ==
    /\ TemplateAnswer
    /\ qreq.body.count.t = "string"
    /\ qreq.h = "api"
    /\ qresp.selected = "generic"

ClampRound(v) ==
    LET r == MathRound(v)
    IN  IF r < 100 THEN 100 ELSE IF r > 2000 THEN 2000 ELSE r

\* C4: the count used to cut the list and reported as `requested` is an integer between
\* 1 and 20, and for a numeric count it is the value rounded, then clamped to [1, 20].
C4_CountRoundedClamped ==
    (qpc = "done" /\ qresp.status = 200) =>
        /\ ~qresp.requested.nan
        /\ qresp.requested.v % 100 = 0
        /\ qresp.requested.v >= 100 /\ qresp.requested.v <= 2000
        /\ qreq.body.count.t = "number" =>
              qresp.requested.v = ClampRound(qreq.body.count.v)

\* C5: on the template path the questions are min(effective count, pool size) different
\* members of the selected pool, and `generated` is their number.
C5_SelectionWithoutRepetition ==
    TemplateAnswer =>
        LET pool == selectedTemplates(qreq.h, qreq.field).items
            n    == Len(qresp.questions)
        IN  /\ ~qresp.requested.nan
            /\ n * 100 = (IF qresp.requested.v < Len(pool) * 100
                          THEN qresp.requested.v ELSE Len(pool) * 100)
            /\ \A i, j \in 1..n : i # j => qresp.questions[i] # qresp.questions[j]
            /\ \A i \in 1..n : \E k \in 1..Len(pool) : pool[k] = qresp.questions[i]
            /\ qresp.generated = n

\* C6: every question returned, from Cohere or from the templates, ends with '?'.
C6_QuestionsEndWithMark ==
    (qpc = "done" /\ qresp.status = 200) =>
        \A i \in 1..Len(qresp.questions) : qresp.questions[i].last = "?"

(***************************************************************************)
(* Properties of the file-identity scorers                                 *)
(***************************************************************************)
\* C1: on the file-identity path, invocations with the same field, the same file name
\* and the same byte size return identical results (same rating, same mistakes in the
\* same order, same tips, same summary), whichever upload they score, as long as no
\* Cohere result is used
C1_SameFileSameResult ==
    \A i, j \in 1..Len(fres) :
        (/\ fcall.scorer \in {"p004", "api", "p005"}
         /\ fres[i].via = "fallback" /\ fres[j].via = "fallback")
            => fres[i].analysis = fres[j].analysis

\* part_004 has scored the same file from two different uploads
C1_Witness ==
    /\ Len(fres) >= 2
    /\ fres[1].via = "fallback" /\ fres[2].via = "fallback"
    /\ fres[1].filepath # fres[2].filepath
    /\ fcall.scorer = "p004"
    /\ fres[1].analysis.rating.t = "number"
    /\ Len(fres[1].analysis.mistakes.items) >= 1

(***************************************************************************)
(* Properties of the transcript and text handlers                          *)
(***************************************************************************)
\* the words a shape holds, and the space characters of its text
WordsOf(shape) ==
    shape.plain + shape.tech + shape.conf + shape.filler + shape.metric + shape.ask

SpacesIn(sep) == Cardinality({i \in 1..Len(sep) : sep[i] = Space})

SpacesOf(shape) ==
    shape.lead + shape.trail
        + (IF WordsOf(shape) = 0 THEN 0 ELSE (WordsOf(shape) - 1) * SpacesIn(shape.sep))

Returned == tpc = "done"

OwnAnalysis(h) == tpc = "done" /\ treq.h = h /\ tres.via = "fallback"

MistakeIds == {tres.analysis.mistakes.items[i].text.id :
                  i \in 1..Len(tres.analysis.mistakes.items)}

\* C7: every analysis a video-analysis handler returns has a rating between 0 and 10
\* inclusive, whether the handler scored it itself or took it from Cohere's text
C7_RatingWithinBounds ==
    Returned =>
        /\ tres.analysis.rating.t = "number"
        /\ tres.analysis.rating.v >= 0
        /\ tres.analysis.rating.v <= 1000

\* C8: for a transcript without any word (empty or white space only) the transcript
\* scorers of server.js, part_003 and part_002 return a rating of 0, 1 or 2, exactly
\* one mistake, which reports that no speech was detected, and at least three tips
C8_SilenceShortCircuits ==
    \A h \in {"server", "p003", "p002"} :
        (OwnAnalysis(h) /\ WordsOf(treq.shape) = 0) =>
            /\ tres.analysis.rating.v \in {0, 100, 200}
            /\ Len(tres.analysis.mistakes.items) = 1
            /\ MistakeIds \subseteq {"server.mistake.nospeech", "p003.mistake.nospeech"}
            /\ Len(tres.analysis.tips.items) >= 3

\* C9: for a transcript of 1 to 19 words the transcript scorers of server.js and
\* part_003 return the fixed 'response too brief' result: a rating between 2 and 4 and
\* exactly one mistake, which says that the response is too brief
C9_BriefShortCircuits ==
    \A h \in {"server", "p003"} :
        (OwnAnalysis(h) /\ WordsOf(treq.shape) \in 1..19) =>
            /\ tres.analysis.rating.v >= 200
            /\ tres.analysis.rating.v <= 400
            /\ Len(tres.analysis.mistakes.items) = 1
            /\ MistakeIds \subseteq {"server.mistake.toobrief", "p003.mistake.toobrief"}

\* the baseline 4 and the adjustments for word count, technical terms, confidence
\* words, metrics and filler words, in hundredths
ListedSum(wordCount, shape) ==
    400 + (IF wordCount > 50 THEN 100 ELSE 0)
        + (IF wordCount > 100 THEN 50 ELSE 0)
        + (IF shape.tech > 2 THEN 100 ELSE 0)
        + (IF shape.tech > 5 THEN 50 ELSE 0)
        + (IF shape.conf > 2 THEN 100 ELSE 0)
        + (IF shape.metric > 0 THEN 100 ELSE 0)
        + (IF shape.filler * 20 < wordCount THEN 50 ELSE 0)

\* the adjustments for a question word and for the field
FurtherSum(shape, field) ==
      (IF shape.ask > 0 THEN 50 ELSE 0)
    + (IF includes(toLowerCase(field), lit.senior) /\ shape.tech > 4 THEN 50 ELSE 0)
    + (IF includes(toLowerCase(field), lit.intern) /\ shape.conf > 1 THEN 50 ELSE 0)

\* rounded to the nearest 0.5 and clamped to [1, 9]
HalfClamped(x) ==
    LET halves == ((x + 25) \div 50) * 50
    IN  IF halves < 100 THEN 100 ELSE IF halves > 900 THEN 900 ELSE halves

\* C10 as stated: for a transcript of at least 20 words the rating of analyzeRealSpeech
\* is the baseline 4 plus the adjustments for word count, technical terms, confidence
\* words, metrics and filler words, rounded to the nearest 0.5 and clamped to [1, 9];
\* nothing else changes it
C10_ListedAdjustmentsOnly ==
    (OwnAnalysis("p003") /\ WordsOf(treq.shape) >= 20) =>
        tres.analysis.rating.v = HalfClamped(ListedSum(WordsOf(treq.shape), treq.shape))

\* C10 amended: with wordCount the number of space characters of the text plus one, a
\* text of wordCount >= 20 is rated the baseline 4 plus the listed adjustments, plus 0.5
\* if it holds a question word, plus 0.5 if the field includes 'senior' and there are
\* more than 4 technical terms, plus 0.5 if the field includes 'intern' and there are
\* more than 1 confidence words, rounded to the nearest 0.5 and clamped to [1, 9]
C10_AllAdjustments ==
    (OwnAnalysis("p003") /\ SpacesOf(treq.shape) + 1 >= 20) =>
        tres.analysis.rating.v =
            HalfClamped(ListedSum(SpacesOf(treq.shape) + 1, treq.shape)
                            + FurtherSum(treq.shape, treq.field))

\* an answer with a question word, for a senior position, rated below the clamp
C10_Witness ==
    /\ OwnAnalysis("p003")
    /\ WordsOf(treq.shape) >= 20
    /\ treq.shape.ask = 1 /\ treq.shape.tech > 4
    /\ includes(toLowerCase(treq.field), lit.senior)
    /\ tres.analysis.rating.v < 900
    /\ tres.analysis.rating.v > HalfClamped(ListedSum(WordsOf(treq.shape), treq.shape))

(***************************************************************************)
(* Claims about the ratings and the wording of the fallback scorers.       *)
(***************************************************************************)
\* C11: every rating a fallback scorer produces is an integer or an integer plus one
\* half (a multiple of 50 hundredths), whatever the field, the file name and the size.
C11_RatingHalfSteps ==
    \A i \in 1..Len(fres) :
        fres[i].via = "fallback" => fres[i].analysis.rating.v % 50 = 0

\* C12: in every analysis of a fallback scorer the band worded in the summary follows
\* the rating of the same result: 'strong' exactly when the rating is at least 7, 'good'
\* exactly when it is at least 6 and below 7, 'developing' otherwise.
C12_BandFollowsRating ==
    \A i \in 1..Len(fres) :
        fres[i].via = "fallback" =>
            LET r == fres[i].analysis.rating.v
                b == fres[i].analysis.summary.band
            IN  /\ b = "strong" <=> r >= 700
                /\ b = "good" <=> (r >= 600 /\ r < 700)
                /\ b = "developing" <=> r < 600

(***************************************************************************)
(* Claims about the questions handlers and Cohere                          *)
(***************************************************************************)
\* the questions a handler extracts from the lines of a reply, and the number it needs
Extracted(h, reply) ==
    CASE h = "server" -> extractServer(reply.lines, <<>>)
      [] h = "p001"   -> extract_p001(reply.lines)
      [] OTHER        -> extractApi(reply.lines)

Threshold(h) == IF h = "p001" THEN 2 ELSE 3

\* Cohere's reply has text and enough questions are extracted from it
Usable(h, count, reply) ==
    /\ reply.kind = "text"
    /\ ~count.nan
    /\ Len(Extracted(h, reply)) * 100 >= Min(Threshold(h) * 100, count.v)

FromThePool(resp) ==
    /\ resp.selected # "none"
    /\ \A i \in 1..Len(resp.questions) : resp.questions[i].pool = resp.selected

\* C13: a failure of Cohere never fails the questions request.  Without an API key the
\* handler goes to the template path; a call to Cohere ends the request only with a 200
\* carrying questions of a usable reply, and otherwise (it throws, the reply is not OK,
\* has no text or too few questions) the handler goes on to the template path; the
\* template path answers 200 with ai: false and questions of the selected pool.
C13_CohereFailureFallsBack ==
    [][ /\ (qpc = "idle" /\ qpc' = "cohere") => env # "unset"
        /\ (qpc = "idle" /\ qpc' # "idle" /\ env = "unset" /\ qresp' = NoResponse)
               => qpc' = "templates"
        /\ qpc = "cohere" =>
               \/ qpc' = "templates" /\ qresp' = NoResponse
               \/ /\ qpc' = "done" /\ qresp'.status = 200 /\ qresp'.ai
                  /\ \E reply \in CohereReplies :
                        /\ Usable(qreq.h, qreq.count, reply)
                        /\ qresp'.questions = slice0(Extracted(qreq.h, reply), qreq.count)
        /\ qpc = "templates" =>
               /\ qpc' = "done" /\ qresp'.status = 200 /\ ~qresp'.ai
               /\ FromThePool(qresp')
      ]_vars

\* a handler that calls Cohere with this key has answered from the templates
C13_Witness ==
    /\ qpc = "done" /\ callsCohere(qreq.h, env)
    /\ qresp.status = 200 /\ ~qresp.ai /\ qresp.questions # <<>>

\* the body's field is missing, empty or only white space
FieldMissing(body) ==
    \/ body.field.t = "undefined"
    \/ body.field.t = "string" /\ \A i \in 1..Len(body.field.s) : body.field.s[i] \in WhiteSpace

\* C14: a questions request whose field is missing, empty or only white space is
\* answered 400 'field is required': it never waits for Cohere nor reaches the template
\* path, and its response carries no questions.
C14_BlankFieldRejected ==
    (qreq.h # "none" /\ FieldMissing(qreq.body)) =>
        /\ qpc = "done"
        /\ qresp.status = 400
        /\ qresp.questions = <<>> /\ ~qresp.ai

\* a handler that would call Cohere has rejected a field of white space only
C14_Witness ==
    /\ qpc = "done" /\ qresp.status = 400
    /\ qreq.body.field.t = "string" /\ qreq.body.field.s # <<>>
    /\ callsCohere(qreq.h, env)

(***************************************************************************)
(* Claims about the categories of the analysis scorers                     *)
(***************************************************************************)
\* the field holds 'java' and a software keyword, and no intern keyword
JavaWithSoftware(field) ==
    LET f == toLowerCase(field)
    IN  /\ includes(f, lit.java)
        /\ includes(f, lit.engineer) \/ includes(f, lit.software) \/ includes(f, lit.developer)
        /\ ~includes(f, lit.intern) /\ ~includes(f, lit.entry)

\* the category a file scorer took for the field, read off the entries it selected
ChosenCategory(scorer, analysis) ==
    CASE scorer = "p005" ->
             (LET id == analysis.mistakes.items[1].text.id
              IN  IF id = "p005.java.mistake" THEN "java"
                  ELSE IF id = "p005.software.mistake" THEN "software"
                  ELSE IF id = "p005.intern.mistake" THEN "intern" ELSE "default")
      [] scorer = "api" ->
             (IF analysis.tips.items[2].id = "api.tip.java" THEN "java"
              ELSE IF analysis.tips.items[2].id = "api.tip.intern" THEN "intern"
              ELSE "software")
      [] scorer = "p007" ->
             (IF analysis.tips.items[1].id = "p007.tip.generic" THEN "other"
              ELSE IF analysis.tips.items[1].field = lit.java THEN "java"
              ELSE "other")
      [] OTHER ->
             (IF analysis.tips.items[5].field = lit.java THEN "java"
              ELSE IF analysis.tips.items[5].field = lit.intern THEN "intern"
              ELSE "other")

\* C15: a field with 'java' and software keywords and no intern keyword, such as
\* 'Senior Java Backend Engineer', is classified as java by the category selection of
\* every analysis scorer.
C15_JavaBeforeSoftware ==
    \A i \in 1..Len(fres) :
        (fres[i].via = "fallback" /\ JavaWithSoftware(fcall.field))
            => ChosenCategory(fcall.scorer, fres[i].analysis) = "java"

\* C16: in POST /api/analyze/video of the Express server (part_007), when the fallback
\* analysis is used, requests uploading a file of the same name and size for the same
\* field receive identical analyses: same rating, mistakes, tips and summary.
C16_ServerFallbackRepeats ==
    \A i, j \in 1..Len(fres) :
        (fcall.scorer = "p007" /\ fres[i].via = "fallback" /\ fres[j].via = "fallback")
            => fres[i].analysis = fres[j].analysis

\* C17: in generateVideoBasedAnalysis of api/analyze.js a lower rating yields more
\* mistakes and more tips: a result rated below 6 has more mistake entries than any
\* result rated 6 or above, and a result rated below 7 has more tips than any result
\* rated 7 or above.
C17_LowerRatingShowsMore ==
    \A i \in 1..Len(fres) :
        fcall.scorer = "api" =>
            \A f \in ScoreFields, z \in FileSizes :
                LET mine  == fres[i].analysis
                    other == generateVideoBasedAnalysis_api(f, z)
                IN  /\ (mine.rating.v < 600 /\ other.rating.v >= 600)
                           => Len(mine.mistakes.items) > Len(other.mistakes.items)
                    /\ (mine.rating.v < 700 /\ other.rating.v >= 700)
                           => Len(mine.tips.items) > Len(other.tips.items)

(***************************************************************************)
(* Claims about the shape of the analysis                                  *)
(***************************************************************************)
\* an analysis with its four fields: a numeric rating, a list of mistakes with a
\* timestamp and a text each, a list of tips and a summary
WellFormed(a) ==
    /\ a.rating.t = "number"
    /\ a.mistakes.t = "array"
    /\ \A i \in 1..Len(a.mistakes.items) :
          {"timestamp", "text"} \subseteq DOMAIN a.mistakes.items[i]
    /\ a.tips.t = "array"
    /\ a.summary.band # "none"

\* C18: every analysis returned in a successful video-analysis response, built by the
\* handler or taken from Cohere's reply, has its four fields; a reply of Cohere that
\* lacks one of them is not returned.
C18_AnalysisHasAllFields ==
    Returned => WellFormed(tres.analysis)

(***************************************************************************)
(* The transcribing handlers of part_002 and part_003                      *)
(***************************************************************************)
PInit ==
    /\ env \in {"unset", "blank", "set"}
    /\ QIdle /\ FIdle /\ TIdle /\ PIdle /\ UIdle /\ AIdle /\ HIdle

\* the handler calls transcribeWithAssemblyAI / getRealTranscription: without
\* ASSEMBLYAI_API_KEY part_002 returns its mock transcription and part_003 returns
\* { error }; with it the video is uploaded and the transcript requested, and a
\* failure there is thrown
PStart ==
    /\ ppc = "idle"
    /\ \E h \in Transcribers, key \in BOOLEAN, uploaded \in BOOLEAN :
          /\ preq' = [h |-> h, key |-> key]
          /\ ppc' = IF ~key
                    THEN (IF h = "p002" THEN "transcribed" ELSE "failed")
                    ELSE (IF uploaded THEN "polling" ELSE "failed")
    /\ attempts' = 0
    /\ transcript' = "none"
    /\ presp' = 0
    /\ UNCHANGED <<env, qvars, fvars, tvars, uvars, avars, hvars>>

\* one turn of the do ... while: wait, poll, count (part_003), test the condition
PPoll ==
    /\ ppc = "polling"
    /\ \E status \in Statuses :
          /\ transcript' = status
          /\ attempts' = IF preq.h = "p003" THEN attempts + 1 ELSE attempts
          /\ ppc' = IF pollsAgain(preq.h, status, attempts') THEN "polling"
                    ELSE IF status = "completed" THEN "transcribed"
                    ELSE "failed"
    /\ UNCHANGED <<env, preq, presp, qvars, fvars, tvars, uvars, avars, hvars>>

\* the handler answers: the analysis of the transcription with 200, a failure with 500
PRespond ==
    /\ ppc \in {"transcribed", "failed"}
    /\ presp' = IF ppc = "transcribed" THEN 200 ELSE 500
    /\ ppc' = "responded"
    /\ UNCHANGED <<env, preq, attempts, transcript, qvars, fvars, tvars, uvars, avars, hvars>>

PFinish ==
    /\ ppc = "responded"
    /\ ppc' = "idle"
    /\ preq' = NoTranscribe
    /\ attempts' = 0
    /\ transcript' = "none"
    /\ presp' = 0
    /\ UNCHANGED <<env, qvars, fvars, tvars, uvars, avars, hvars>>

PNext == PStart \/ PPoll \/ PRespond \/ PFinish

\* the event loop runs every timer and continuation that is due: a handler that can
\* take a step takes one
SpecPolling == PInit /\ [][PNext]_vars /\ WF_vars(PNext)

\* C19: in each handler that polls AssemblyAI, whatever statuses the service reports,
\* polling stops and the handler sends a response to the request
C19_PollingEnds == (ppc = "polling") ~> (ppc = "responded")

(***************************************************************************)
(* Two video-analysis requests in the Express server                       *)
(***************************************************************************)
UInit ==
    /\ env \in {"unset", "blank", "set"}
    /\ QIdle /\ FIdle /\ TIdle /\ PIdle /\ UIdle /\ AIdle /\ HIdle

\* Date.now() moves on
Tick ==
    /\ now < MaxClock
    /\ now' = now + 1
    /\ UNCHANGED <<env, disk, upl, qvars, fvars, tvars, pvars, avars, hvars>>

\* upload.single('video') reaches the file part of request r: multer calls filename
UName(r) ==
    /\ upl[r].pc = "idle"
    /\ \E name \in OriginalNames :
          upl' = [upl EXCEPT ![r] = [NoUpload EXCEPT !.pc = "named", !.name = name,
                                                     !.path = storagePath(now, name)]]
    /\ UNCHANGED <<env, now, disk, qvars, fvars, tvars, pvars, avars, hvars>>

\* multer has written the upload of request r to its path; the handler starts with
\* videoPath = req.file.path
UWrite(r) ==
    /\ upl[r].pc = "named"
    /\ disk' = writeFile(disk, upl[r].path, r)
    /\ upl' = [upl EXCEPT ![r].pc = "stored"]
    /\ UNCHANGED <<env, now, qvars, fvars, tvars, pvars, avars, hvars>>

\* ffmpeg(videoPath): on 'error' (a missing file, or a file ffmpeg cannot decode) the
\* promise is rejected and the outer catch answers 500 without cleanup; otherwise the
\* audio is taken from the file found there
UExtract(r) ==
    /\ upl[r].pc = "stored"
    /\ \/ upl' = [upl EXCEPT ![r].pc = "responded", ![r].status = 500]
       \/ \E f \in filesAt(disk, upl[r].path) :
               upl' = [upl EXCEPT ![r].pc = "extracted", ![r].read = f.content]
    /\ UNCHANGED <<env, now, disk, qvars, fvars, tvars, pvars, avars, hvars>>

\* Whisper has run.  A failed exit code and a missing transcript file unlink the video
\* and answer 500; a transcript that JSON.parse rejects throws into the outer catch,
\* which answers 500 and unlinks nothing; after the analysis the video is unlinked and
\* the answer is 200.  (The audio and transcript files, named by a uuid, are left out.)
UCleanup(r) ==
    /\ upl[r].pc = "extracted"
    /\ \E whisper \in WhisperOutcomes :
          IF whisper = "unreadable"
          THEN /\ upl' = [upl EXCEPT ![r].pc = "responded", ![r].status = 500]
               /\ disk' = disk
          ELSE /\ upl' = [upl EXCEPT ![r].pc = "responded",
                                     ![r].status = IF whisper = "transcribed" THEN 200 ELSE 500,
                                     ![r].removed =
                                         IF filesAt(disk, upl[r].path) = {} THEN 0
                                         ELSE (CHOOSE f \in filesAt(disk, upl[r].path) : TRUE).content]
               /\ disk' = unlinkSync(disk, upl[r].path)
    /\ UNCHANGED <<env, now, qvars, fvars, tvars, pvars, avars, hvars>>

UFinish(r) ==
    /\ upl[r].pc = "responded"
    /\ upl' = [upl EXCEPT ![r] = NoUpload]
    /\ UNCHANGED <<env, now, disk, qvars, fvars, tvars, pvars, avars, hvars>>

UNext ==
    \/ Tick
    \/ \E r \in Requests : UName(r)
    \/ \E r \in Requests : UWrite(r)
    \/ \E r \in Requests : UExtract(r)
    \/ \E r \in Requests : UCleanup(r)
    \/ \E r \in Requests : UFinish(r)

SpecUploads == UInit /\ [][UNext]_vars

\* a request whose upload has a path and that has not answered yet
InFlight(r) == upl[r].pc \in {"named", "stored", "extracted"}

\* C20: under every interleaving of two video-analysis requests, no two requests in
\* flight have their uploads under the same path, and a request reads and deletes
\* only its own upload
C20_RequestsIsolated ==
    /\ \A r, s \in Requests :
          r # s /\ InFlight(r) /\ InFlight(s) => upl[r].path # upl[s].path
    /\ \A r \in Requests : upl[r].read \in {0, r} /\ upl[r].removed \in {0, r}

(***************************************************************************)
(* The auth and sessions endpoints of the Express server.  A handler has   *)
(* no await between reading and writing users: it runs as one step.        *)
(***************************************************************************)
AInit ==
    /\ env \in {"unset", "blank", "set"}
    /\ QIdle /\ FIdle /\ TIdle /\ PIdle /\ UIdle /\ AIdle /\ HIdle

ARegister ==
    /\ \E name \in Names, email \in Emails, password \in RegisterPasswords :
          LET r == register(users, now, name, email, password)
          IN  /\ users' = r.users
              /\ areq' = [NoAuthRequest EXCEPT !.op = "register", !.name = name,
                                           !.email = email, !.password = password]
              /\ aresp' = [status |-> r.status, body |-> r.body]
    /\ UNCHANGED <<env, qvars, fvars, tvars, pvars, uvars, hvars>>

ALogin ==
    /\ \E email \in Emails, password \in LoginPasswords :
          /\ areq' = [NoAuthRequest EXCEPT !.op = "login", !.email = email, !.password = password]
          /\ aresp' = login(users, email, password)
    /\ UNCHANGED <<env, users, qvars, fvars, tvars, pvars, uvars, hvars>>

AGetSessions ==
    /\ \E param \in UserIdParams :
          /\ areq' = [NoAuthRequest EXCEPT !.op = "getSessions", !.userId = param]
          /\ aresp' = getSessions(users, param)
    /\ UNCHANGED <<env, users, qvars, fvars, tvars, pvars, uvars, hvars>>

\* the sessions stored in all
totalSessions(us) == Cardinality({<<i, k>> \in (DOMAIN us) \X (1..MaxSessions) : k <= Len(us[i].sessions)})

\* a client saves a session for its user under the id it was given at registration;
\* other ids are tried too
ASaveSession ==
    /\ totalSessions(users) < MaxSessions
    /\ \E param \in UserIdParams, body \in SessionBodies :
          /\ \/ findUser(users, param) = 0
             \/ /\ usersHas(users, body.owner)
                /\ parseInt(param) = Num(usersGet(users, body.owner).id)
          /\ LET r == saveSession(users, now, param, body)
             IN  /\ users' = r.users
                 /\ areq' = [NoAuthRequest EXCEPT !.op = "saveSession", !.userId = param,
                                              !.owner = body.owner]
                 /\ aresp' = [status |-> r.status, body |-> r.body]
    /\ UNCHANGED <<env, qvars, fvars, tvars, pvars, uvars, hvars>>

ANext == Tick \/ ARegister \/ ALogin \/ AGetSessions \/ ASaveSession

SpecUsers == AInit /\ [][ANext]_vars

\* a step in which one of the auth and sessions handlers ran
AHandled == <<users, areq, aresp>>' # <<users, areq, aresp>>

OneUserPerEmail ==
    \A i, j \in DOMAIN users : users[i].email = users[j].email => i = j

\* C21 as stated: the store holds at most one user per email, and every register
\* request for a registered email is answered 400 'User already exists' and leaves the
\* store unchanged
C21_DuplicateAlwaysUserExists ==
    /\ []OneUserPerEmail
    /\ [][AHandled /\ areq'.op = "register" /\ usersHas(users, areq'.email)
              => /\ aresp' = [status |-> 400, body |-> [error |-> "User already exists"]]
                 /\ users' = users]_vars

\* C21: the store holds at most one user per email; a register request for a
\* registered email leaves the store unchanged and is answered 400: 'User already
\* exists' when name, email and password are all given, 'All fields are required'
\* when one is missing
C21_DuplicateRejected ==
    /\ []OneUserPerEmail
    /\ [][AHandled /\ areq'.op = "register" /\ usersHas(users, areq'.email)
              => /\ users' = users
                 /\ aresp'.status = 400
                 /\ aresp'.body.error =
                        IF areq'.name = "" \/ areq'.password = ""
                        THEN "All fields are required" ELSE "User already exists"]_vars

C21_Witness ==
    /\ areq.op = "register" /\ areq.email = "a@x"
    /\ aresp = [status |-> 400, body |-> [error |-> "User already exists"]]
    /\ Len(users) = 2
    /\ usersHas(users, "a@x")

\* the stored users keep their place, email and password, and a registration stores the
\* password it was given
PasswordsAsRegistered ==
    /\ \A i \in DOMAIN users :
          /\ i \in DOMAIN users'
          /\ users'[i].email = users[i].email
          /\ users'[i].password = users[i].password
    /\ AHandled /\ areq'.op = "register" /\ aresp'.status = 200
          => /\ users'[Len(users')].email = areq'.email
             /\ users'[Len(users')].password = areq'.password

\* C22: login returns the user record exactly when a user with the given email is
\* registered and the given password is the one given at registration, answers 401
\* 'Invalid credentials' otherwise, and never changes the user store
C22_LoginChecksCredentials ==
    /\ [][PasswordsAsRegistered]_vars
    /\ [][AHandled /\ areq'.op = "login"
              => /\ users' = users
                 /\ IF /\ usersHas(users, areq'.email)
                       /\ usersGet(users, areq'.email).password = areq'.password
                    THEN /\ aresp'.status = 200
                         /\ aresp'.body.user.email = areq'.email
                         /\ aresp'.body.user.id = usersGet(users, areq'.email).id
                         /\ aresp'.body.user.name = usersGet(users, areq'.email).name
                         /\ aresp'.body.user.sessions = usersGet(users, areq'.email).sessions
                    ELSE aresp' = [status |-> 401, body |-> [error |-> "Invalid credentials"]]]_vars

C22_Witness ==
    /\ areq.op = "login" /\ areq.email = "b@x"
    /\ aresp.status = 200
    /\ Len(users) = 2

\* C23: a response of register or login never holds the password: the user object
\* returned carries every stored field of the user except password, and an error
\* response carries the error message alone
C23_NoPasswordInResponse ==
    areq.op \in {"register", "login"} =>
        IF aresp.status = 200
        THEN /\ usersHas(users, areq.email)
             /\ "password" \notin DOMAIN aresp.body.user
             /\ DOMAIN aresp.body.user = DOMAIN usersGet(users, areq.email) \ {"password"}
             /\ \A f \in DOMAIN aresp.body.user :
                   aresp.body.user[f] = usersGet(users, areq.email)[f]
        ELSE /\ DOMAIN aresp.body = {"error"}
             /\ aresp.body.error \in {"All fields are required", "User already exists",
                                      "Invalid credentials"}

C23_Witness ==
    /\ areq.op = "login" /\ areq.password = "p"
    /\ aresp.status = 200
    /\ usersGet(users, areq.email).password = "p"
    /\ Len(usersGet(users, areq.email).sessions) > 0

\* s is the beginning of t
isPrefix(s, t) == Len(s) <= Len(t) /\ \A k \in 1..Len(s) : t[k] = s[k]

\* the registered users that req.params.userId names
usersNamed(param) == {i \in DOMAIN users : ~parseInt(param).nan /\ users[i].id = parseInt(param).v}

\* C24: session lists are append-only; GET /api/users/:userId/sessions returns exactly
\* the sessions saved for the user of that id, in the order they were saved; a request
\* for an unknown user id is answered 404 and changes nothing
C24_SessionsOfTheUser ==
    /\ [][\A i \in DOMAIN users :
             i \in DOMAIN users' /\ isPrefix(users[i].sessions, users'[i].sessions)]_vars
    /\ [][AHandled /\ areq'.op \in {"getSessions", "saveSession"} /\ usersNamed(areq'.userId) = {}
              => /\ aresp' = [status |-> 404, body |-> [error |-> "User not found"]]
                 /\ users' = users]_vars
    /\ [](areq.op = "getSessions" =>
             \A i \in usersNamed(areq.userId) :
                /\ aresp.status = 200
                /\ aresp.body.sessions = users[i].sessions
                /\ \A k \in 1..Len(aresp.body.sessions) :
                      aresp.body.sessions[k].owner = users[i].email)

\* C25: distinct registered users have distinct ids, a session saved under a user's id
\* is stored in that user's list, and no other user's request returns it
C25_DistinctIds ==
    /\ \A i, j \in DOMAIN users : i # j => users[i].id # users[j].id
    /\ \A i \in DOMAIN users : \A k \in 1..Len(users[i].sessions) :
          users[i].sessions[k].owner = users[i].email

\* C26: once the video-analysis handler has answered a request that uploaded a file,
\* the uploaded file is no longer on disk, whatever path the handler took
C26_UploadDeletedAfterResponse ==
    \A r \in Requests :
        upl[r].pc = "responded" =>
            \A f \in filesAt(disk, upl[r].path) : f.content # r

\* C27: for every field to which the fieldMappings loop of the questions handler
\* (api/questions.js) assigns intern, java or software, the category selection of the
\* analysis scorers of api/analyze.js and part_005 assigns the same category
C27_ClassifiersAgree ==
    \A i \in 1..Len(fres) :
        (/\ fcall.scorer \in {"api", "p005"}
         /\ fres[i].via = "fallback"
         /\ matchedCategory("api", fcall.field) \in {"intern", "java", "software"})
            => ChosenCategory(fcall.scorer, fres[i].analysis) = matchedCategory("api", fcall.field)

(***************************************************************************)
(* Requests to the handler of api/analyze.js                               *)
(***************************************************************************)
HInit ==
    /\ env \in {"unset", "blank", "set"}
    /\ QIdle /\ FIdle /\ TIdle /\ PIdle /\ UIdle /\ AIdle /\ HIdle

HRequest ==
    /\ \E method \in Methods, contentType \in ContentTypes, contentLength \in ContentLengths,
          field \in {<<>>, lit.java, lit.intern}, hasVideo \in BOOLEAN :
          /\ hreq' = [method |-> method, contentType |-> contentType,
                      contentLength |-> contentLength, field |-> field, hasVideo |-> hasVideo]
          /\ hresp' = handler_api(hreq')
    /\ UNCHANGED <<env, qvars, fvars, tvars, pvars, uvars, avars>>

HNext == HRequest

SpecHandler == HInit /\ [][HNext]_vars

\* C28: the handler of api/analyze.js returns a generated analysis marked processed and
\* actualVideoProcessed only for a multipart/form-data request; a POST of any other
\* content type receives the rating-0 'No video content detected' result with exactly
\* one mistake and processed: false; a Content-Length above 50MB receives 413 with no
\* analysis
C28_AnalysisOnlyForUploads ==
    hreq.method = "POST" =>
        /\ hresp.processed /\ hresp.actualVideoProcessed
              => includes(hreq.contentType, multipartFormData)
        /\ (hreq.contentLength # <<>> /\ parseInt(hreq.contentLength).v > 50 * MB)
              => hresp.status = 413 /\ hresp.analysis.rating = JUndefined
        /\ (/\ ~includes(hreq.contentType, multipartFormData)
            /\ (hreq.contentLength = <<>> \/ parseInt(hreq.contentLength).v <= 50 * MB))
              => /\ hresp.status = 200
                 /\ hresp.analysis.rating = JNum(0)
                 /\ Len(hresp.analysis.mistakes.items) = 1
                 /\ ~hresp.processed

\* ((hash << 5) - hash) + char, then hash & hash, written out on the halves: the shift,
\* the subtraction and the addition, each wrapped to 32 bits
shiftSubtractStep(h, code) ==
    LET sh  == [hi |-> (h.hi * 32 + h.lo \div 2048) % 65536, lo |-> (h.lo * 32) % 65536]
        dlo == sh.lo - h.lo
        d   == [hi |-> (sh.hi - h.hi - (IF dlo < 0 THEN 1 ELSE 0) + 131072) % 65536,
                lo |-> (dlo + 65536) % 65536]
        alo == d.lo + code
    IN  [hi |-> (d.hi + alo \div 65536) % 65536, lo |-> alo % 65536]

\* at every character of str, h*31 + charCode wrapped to 32 bits is what the shift and
\* subtraction of the code give
RECURSIVE foldAgrees(_, _, _)
foldAgrees(str, i, h) ==
    \/ i > Len(str)
    \/ /\ hashStep(h, charCode(str[i])) = shiftSubtractStep(h, charCode(str[i]))
       /\ foldAgrees(str, i + 1, hashStep(h, charCode(str[i])))

\* the string a hash scorer hashes for the call in hand
hashedString ==
    IF fcall.scorer = "p004"
    THEN hashInput_p004(fcall.field, [originalFilename |-> fcall.name, size |-> fcall.size])
    ELSE (IF fcall.name = <<>> THEN lit.undefined ELSE fcall.name) \o toString(fcall.size)

\* the wrapped value of the fold is negative
wrappedNegative(str) == hashLoop(str, 1, [hi |-> 0, lo |-> 0]).hi >= 32768

\* m is the absolute value of the signed 32-bit value with pattern w
isAbsOf(m, w) ==
    /\ m.hi \in 0..32768 /\ m.lo \in 0..65535 /\ (m.hi = 32768 => m.lo = 0)
    /\ IF w.hi < 32768 THEN m = w
       ELSE /\ (m.lo + w.lo) % 65536 = 0
            /\ m.hi + w.hi + (m.lo + w.lo) \div 65536 = 65536

\* C29: the rolling hash of part_004 and part_005 is the absolute value of the fold
\* h := h*31 + charCode wrapped to a signed 32-bit integer at each step; it is never
\* negative, so every index hash % length and (hash + 7*i) % length selects an entry
\* of its pool, and the mistakes selected for one result are pairwise distinct
C29_HashSelectsEntries ==
    (fcall.scorer \in {"p004", "p005"} /\ Len(fres) >= 1) =>
        LET str  == hashedString
            wrapped == hashLoop(str, 1, [hi |-> 0, lo |-> 0])
            hash == rollingHash(str)
            pool == mistakePool_p004(fcall.field)
        IN  /\ foldAgrees(str, 1, [hi |-> 0, lo |-> 0])
            /\ isAbsOf(hash, wrapped)
            /\ hashMod(hash, Len(ratings_p005)) \in 0..(Len(ratings_p005) - 1)
            /\ hashMod(hash, 8) \in 0..7
            /\ \A i \in 0..2 :
                  (hashMod(hash, Len(pool)) + i * 7) % Len(pool) \in 0..(Len(pool) - 1)
            /\ \A n \in 1..Len(fres) :
                  fres[n].via = "fallback" =>
                      LET mistakes == fres[n].analysis.mistakes.items
                      IN  /\ fres[n].analysis.rating.t = "number"
                          /\ fcall.scorer = "p004" =>
                                \A i \in 1..Len(mistakes) :
                                   \E k \in 1..Len(pool) : mistakes[i] = pool[k]
                          /\ Len(mistakes) >= 1
                          /\ \A i, j \in 1..Len(mistakes) : i # j => mistakes[i] # mistakes[j]

C29_Witness ==
    /\ fcall.scorer = "p004"
    /\ Len(fres) >= 1
    /\ fres[1].via = "fallback"
    /\ wrappedNegative(hashedString)
    /\ Len(fres[1].analysis.mistakes.items) = 3

SectionHeaders == {"mistakes:", "tips:", "summary:"}

\* the header of the section that line i of a text stands in: that of the most recent
\* header line before it, "none" before the first
sectionOf(ls, i) ==
    LET hs == {k \in 1..(i - 1) : ls[k].header \in SectionHeaders}
    IN  IF hs = {} THEN "none" ELSE ls[CHOOSE k \in hs : \A m \in hs : m <= k].header

\* what C30 says of the text ls, the analysis a parsed from it and the flags of the scan
ScanIsSectioned(ls, a, flags) ==
    LET mistakeLines == {a.mistakes.items[k].text.num : k \in 1..Len(a.mistakes.items)}
        tipLines     == {a.tips.items[k].num : k \in 1..Len(a.tips.items)}
        summaryLines == {a.summary.size} \ {0}
    IN  /\ Len(flags) = Len(ls)
        /\ \A i \in 1..Len(ls) :
              Cardinality({f \in {"inMistakes", "inTips", "inSummary"} : flags[i][f]}) <= 1
        /\ \A k \in mistakeLines : ls[k].header \notin SectionHeaders /\ sectionOf(ls, k) = "mistakes:"
        /\ \A k \in tipLines : ls[k].header \notin SectionHeaders /\ sectionOf(ls, k) = "tips:"
        /\ \A k \in summaryLines : ls[k].header \notin SectionHeaders /\ sectionOf(ls, k) = "summary:"
        /\ mistakeLines \cap tipLines = {}
        /\ summaryLines \cap (mistakeLines \cup tipLines) = {}
        /\ Len(a.mistakes.items) <= 4
        /\ Len(a.tips.items) <= 5
        /\ a.rating.v \in {100 * n : n \in 1..10}
        /\ (\A i \in 1..Len(ls) : ~(ls[i].header = "rating:" /\ ls[i].digits >= 0))
              => a.rating.v = 700

\* C30: while parseAnalysisText scans Cohere's lines at most one of the sections
\* mistakes, tips, summary is active; a header line is never stored; every other line
\* goes to at most one output, that of the most recent header before it, and lines
\* before the first header to none; the result has at most 4 mistakes, at most 5 tips
\* and an integer rating in [1, 10] that is 7 when no rating line holds a number
C30_ScanKeepsSections ==
    (treq.h = "p006" /\ tres.via = "cohere") =>
        \A ls \in CohereTexts, rnd \in StampDraws :
            tres.analysis = parseAnalysisText(ls, treq.field, rnd)
                => ScanIsSectioned(ls, tres.analysis, parseLines(ls, 1, NoFlags, NoneParsed).flags)

C30_Witness ==
    /\ treq.h = "p006" /\ tres.via = "cohere"
    /\ Len(tres.analysis.mistakes.items) = 4
    /\ Len(tres.analysis.tips.items) = 5
    /\ tres.analysis.rating.v = 1000

====
